---- MODULE Spec2Model ----
(***************************************************************************)
(* Conversational task-command interpreter of the to-do backend:           *)
(* bounded conversation memory (session_manager.py), the tool layer and    *)
(* TaskOperations (task_management_agent.py, task_operations.py), the      *)
(* per-user task list (user_data.py, user_data_repository.py) and the      *)
(* chat turn (run_agent_with_session).                                     *)
(*                                                                         *)
(* Python str values are TLC strings; None is the sentinel string None.    *)
(* Timestamps are values of a logical clock that advances with every tool  *)
(* call.                                                                   *)
(***************************************************************************)
EXTENDS Integers, Sequences, FiniteSets, TLC

(***************************************************************************)
(* Bounds of the model                                                     *)
(***************************************************************************)
\* add_message calls explored on one SessionManager
MaxAppends == 15
\* largest capacity requested beside the default
MaxSmallCap == 3
\* tool calls explored in one run; the clock advances with each call
MaxClock == 3
\* tasks in the lists find_task_by_description is applied to
MaxFindTasks == 3
\* create calls explored when the recurrence detection is probed
MaxProbes == 1
\* run_agent_with_session calls explored, awaited concurrently
MaxTurns == 3

\* tool calls made by the concurrent requests together
MaxReqCalls == 3

\* SessionManager calls awaited concurrently
MaxCoroutines == 3

\* create and update calls explored when the fields are probed
MaxFieldCalls == 2

\* calls explored on one stored list when listing is probed
MaxListCalls == 1
\* tasks in the lists the statistics are computed of, beside the example list
MaxStatTasks == 2
\* tool calls and REST requests explored in the concurrent requests of one user
MaxRaceCalls == 2
\* SessionStore calls awaited concurrently
MaxStoreCalls == 3
\* requests of one user explored on the chat endpoint
MaxChatRequests == 3

(***************************************************************************)
(* Python values                                                           *)
(***************************************************************************)
None == "<None>"

\* max_messages default of SessionManager / create_user_session
DefaultMaxMessages == 10

(***************************************************************************)
(* str helpers: lower(), strip(), `in`, startswith()                       *)
(***************************************************************************)
UpperChars == "ABCDEFGHIJKLMNOPQRSTUVWXYZ"
LowerChars == "abcdefghijklmnopqrstuvwxyz"

CharAt(s, i) == SubSeq(s, i, i)

\* the lower-case letter of every upper-case letter
LowerMap ==
    [c \in {CharAt(UpperChars, i) : i \in 1..26} |->
        CharAt(LowerChars, CHOOSE i \in 1..26 : CharAt(UpperChars, i) = c)]

LowerChar(c) == IF c \in DOMAIN LowerMap THEN LowerMap[c] ELSE c

\* the lower-cased characters of s from the i-th on; a long remainder is
\* lower-cased half by half
RECURSIVE LowerFrom(_, _)
LowerFrom(s, i) ==
    IF i > Len(s) THEN ""
    ELSE IF Len(s) - i < 8
    THEN LowerChar(CharAt(s, i)) \o LowerFrom(s, i + 1)
    ELSE LET mid == (i + Len(s)) \div 2
         IN  LowerFrom(SubSeq(s, i, mid), 1) \o LowerFrom(s, mid + 1)

\* str.lower()
Lower(s) == LowerFrom(s, 1)

\* str.isspace() of an ASCII character: the space, \t, \n, \v, \f, \r and
\* the separators \x1c to \x1f (the strings of the model are ASCII)
IsSpace(c) ==
    c \in {" ", "\t", "\n", "", "\f", "\r", "", "", "", ""}

\* str.strip()
Strip(s) ==
    IF \A i \in 1..Len(s) : IsSpace(CharAt(s, i))
    THEN ""
    ELSE LET first == CHOOSE i \in 1..Len(s) :
                          /\ ~IsSpace(CharAt(s, i))
                          /\ \A j \in 1..(i - 1) : IsSpace(CharAt(s, j))
             last  == CHOOSE i \in 1..Len(s) :
                          /\ ~IsSpace(CharAt(s, i))
                          /\ \A j \in (i + 1)..Len(s) : IsSpace(CharAt(s, j))
         IN  SubSeq(s, first, last)

\* sub in s
Contains(s, sub) ==
    \E i \in 0..(Len(s) - Len(sub)) : SubSeq(s, i + 1, i + Len(sub)) = sub

\* s.startswith(p)
StartsWith(s, p) == Len(p) <= Len(s) /\ SubSeq(s, 1, Len(p)) = p

\* bool(s) of an Optional[str]
Truthy(s) == s # None /\ s # ""

\* any(kw in s for kw in kws)
AnyIn(kws, s) == \E kw \in kws : Contains(s, kw)

Max(a, b) == IF a >= b THEN a ELSE b
Min(a, b) == IF a <= b THEN a ELSE b

(***************************************************************************)
(* Calendar dates: datetime.now(), timedelta, strftime, strptime           *)
(***************************************************************************)
\* the date datetime.now() returns while the model runs
TodayDate == [y |-> 2025, m |-> 12, d |-> 30]

IsLeap(y) == (y % 4 = 0 /\ y % 100 # 0) \/ y % 400 = 0

DaysInMonth(y, m) ==
    IF m = 2 THEN (IF IsLeap(y) THEN 29 ELSE 28)
    ELSE IF m \in {4, 6, 9, 11} THEN 30 ELSE 31

NextDay(dt) ==
    IF dt.d < DaysInMonth(dt.y, dt.m) THEN [dt EXCEPT !.d = @ + 1]
    ELSE IF dt.m < 12 THEN [y |-> dt.y, m |-> dt.m + 1, d |-> 1]
    ELSE [y |-> dt.y + 1, m |-> 1, d |-> 1]

\* dt + timedelta(days=n)
RECURSIVE AddDays(_, _)
AddDays(dt, n) == IF n = 0 THEN dt ELSE AddDays(NextDay(dt), n - 1)

Pad2(n) == IF n < 10 THEN "0" \o ToString(n) ELSE ToString(n)
Pad4(n) ==
    IF n < 10 THEN "000" \o ToString(n)
    ELSE IF n < 100 THEN "00" \o ToString(n)
    ELSE IF n < 1000 THEN "0" \o ToString(n)
    ELSE ToString(n)

\* dt.strftime("%Y-%m-%d")
FormatDate(dt) == Pad4(dt.y) \o "-" \o Pad2(dt.m) \o "-" \o Pad2(dt.d)

DigitChars == "0123456789"
IsDigit(c) == \E i \in 1..10 : CharAt(DigitChars, i) = c
IsDigits(s) == Len(s) > 0 /\ \A i \in 1..Len(s) : IsDigit(CharAt(s, i))
DigitVal(c) == (CHOOSE i \in 1..10 : CharAt(DigitChars, i) = c) - 1

RECURSIVE NatOf(_)
NatOf(s) ==
    IF Len(s) = 0 THEN 0
    ELSE 10 * NatOf(SubSeq(s, 1, Len(s) - 1)) + DigitVal(CharAt(s, Len(s)))

\* the text strptime's %m accepts: 1[0-2]|0[1-9]|[1-9]
IsMonthText(s) == Len(s) \in {1, 2} /\ IsDigits(s) /\ NatOf(s) \in 1..12
\* the text strptime's %d accepts: 3[01]|[12]\d|0[1-9]|[1-9]| [1-9]
IsDayText(s) ==
    \/ Len(s) \in {1, 2} /\ IsDigits(s) /\ NatOf(s) \in 1..31
    \/ Len(s) = 2 /\ CharAt(s, 1) = " " /\ IsDigit(CharAt(s, 2)) /\ CharAt(s, 2) # "0"
DayOf(s) == IF CharAt(s, 1) = " " THEN NatOf(SubSeq(s, 2, 2)) ELSE NatOf(s)

\* the positions of the second "-" of a YYYY-m-d text
SecondDash(s) == {i \in 7..(Len(s) - 1) : CharAt(s, i) = "-"}

\* datetime.strptime(s, "%Y-%m-%d") succeeds
StrptimeOk(s) ==
    /\ Len(s) >= 8
    /\ IsDigits(SubSeq(s, 1, 4))
    /\ CharAt(s, 5) = "-"
    /\ \E i \in SecondDash(s) :
          /\ IsMonthText(SubSeq(s, 6, i - 1))
          /\ IsDayText(SubSeq(s, i + 1, Len(s)))
          /\ DayOf(SubSeq(s, i + 1, Len(s)))
                <= DaysInMonth(NatOf(SubSeq(s, 1, 4)), NatOf(SubSeq(s, 6, i - 1)))
          /\ NatOf(SubSeq(s, 1, 4)) >= 1

\* datetime.strptime(s, "%Y-%m-%d"), when it succeeds
Strptime(s) ==
    LET i == CHOOSE j \in SecondDash(s) :
                 IsMonthText(SubSeq(s, 6, j - 1)) /\ IsDayText(SubSeq(s, j + 1, Len(s)))
    IN  [y |-> NatOf(SubSeq(s, 1, 4)),
         m |-> NatOf(SubSeq(s, 6, i - 1)),
         d |-> DayOf(SubSeq(s, i + 1, Len(s)))]

\* the time of day datetime.now(timezone.utc) returns while the model runs
NowTime == [h |-> 9, mi |-> 0, s |-> 0]

\* s[i] of a C string, i counted from 0: "" stands for the terminating NUL
At(s, i) == IF i >= 0 /\ i < Len(s) THEN CharAt(s, i + 1) ELSE ""

\* parse_digits: the number written by the n digits from position p, -1 when
\* one of the n characters is not a digit
ParseDigits(s, p, n) ==
    IF p >= 0 /\ n >= 1 /\ p + n <= Len(s) /\ IsDigits(SubSeq(s, p + 1, p + n))
    THEN NatOf(SubSeq(s, p + 1, p + n))
    ELSE -1

\* the first position from p on that holds no digit
DigitsEnd(s, p) ==
    LET stop == {i \in p..Len(s) : ~IsDigit(At(s, i))}
    IN  IF p > Len(s) THEN p ELSE CHOOSE i \in stop : \A j \in stop : i <= j

\* _find_isoformat_datetime_separator: where the date of the text ends
FindIsoformatSeparator(s) ==
    LET len == Len(s)
        idx == DigitsEnd(s, 7)
    IN  IF len = 7 THEN 7
        ELSE IF At(s, 4) = "-"
        THEN IF At(s, 5) = "W"
             THEN IF len > 8 /\ At(s, 8) = "-"
                  THEN IF len = 9 THEN -1
                       ELSE IF len > 10 /\ IsDigit(At(s, 10)) THEN 8
                       ELSE 10
                  ELSE 8
             ELSE 10
        ELSE IF At(s, 4) = "W"
        THEN IF idx < 9 THEN idx
             ELSE IF idx % 2 = 0 THEN 7
             ELSE 8
        ELSE 8

\* days_before_year, days_before_month and ymd_to_ord: the proleptic
\* Gregorian ordinal of a day, 1 for 0001-01-01
DaysBeforeYear(y) == (y - 1) * 365 + (y - 1) \div 4 - (y - 1) \div 100 + (y - 1) \div 400

RECURSIVE DaysBeforeMonth(_, _)
DaysBeforeMonth(y, m) ==
    IF m = 1 THEN 0 ELSE DaysBeforeMonth(y, m - 1) + DaysInMonth(y, m - 1)

YmdToOrd(dt) == DaysBeforeYear(dt.y) + DaysBeforeMonth(dt.y, dt.m) + dt.d

\* the last day a date can be: 9999-12-31
MaxOrdinal == YmdToOrd([y |-> 9999, m |-> 12, d |-> 31])

\* ord_to_ymd, for an ordinal in 1..MaxOrdinal
OrdToYmd(n) ==
    LET y == CHOOSE k \in ((n - 1) \div 366 + 1)..((n - 1) \div 365 + 1) :
                 DaysBeforeYear(k) < n /\ n <= DaysBeforeYear(k + 1)
        r == n - DaysBeforeYear(y)
        m == CHOOSE k \in 1..12 :
                 DaysBeforeMonth(y, k) < r /\ r <= DaysBeforeMonth(y, k) + DaysInMonth(y, k)
    IN  [y |-> y, m |-> m, d |-> r - DaysBeforeMonth(y, m)]

\* what a parser returns when the text is not of its format
NotParsed == [ok |-> FALSE]

\* iso_to_ymd followed by the range check of the datetime constructor: the
\* day of ISO week iso_week, week day iso_day, of year iso_year
IsoToYmd(iso_year, iso_week, iso_day) ==
    LET first_day == YmdToOrd([y |-> iso_year, m |-> 1, d |-> 1])
        first_weekday == (first_day + 6) % 7
        long_year == first_weekday = 3 \/ (first_weekday = 2 /\ IsLeap(iso_year))
        week1_monday == IF first_weekday > 3 THEN first_day - first_weekday + 7
                        ELSE first_day - first_weekday
        ordinal == week1_monday + (iso_week - 1) * 7 + iso_day - 1
    IN  IF ~(iso_week \in 1..52 \/ (iso_week = 53 /\ long_year)) THEN NotParsed
        ELSE IF iso_day \notin 1..7 THEN NotParsed
        ELSE IF ordinal \notin 1..MaxOrdinal THEN NotParsed
        ELSE [ok |-> TRUE, date |-> OrdToYmd(ordinal)]

\* parse_isoformat_date(dtstr, len) with len the separator's position: the
\* date is read from the start of the text, YYYY-MM-DD, YYYYMMDD,
\* YYYY-Www[-D] or YYYYWww[D]
ParseIsoformatDate(s, len) ==
    LET year == ParseDigits(s, 0, 4)
        uses_separator == At(s, 4) = "-"
        p == IF uses_separator THEN 5 ELSE 4
        iso_week == ParseDigits(s, p + 1, 2)
        has_day == len < 0 \/ p + 3 < len
        day_at == IF uses_separator THEN p + 4 ELSE p + 3
        iso_day == IF has_day THEN ParseDigits(s, day_at, 1) ELSE 1
        month == ParseDigits(s, p, 2)
        day == ParseDigits(s, IF uses_separator THEN p + 3 ELSE p + 2, 2)
    IN  IF year < 0 THEN NotParsed
        ELSE IF At(s, p) = "W"
        THEN IF iso_week < 0 THEN NotParsed
             ELSE IF has_day /\ uses_separator /\ At(s, p + 3) # "-" THEN NotParsed
             ELSE IF iso_day < 0 THEN NotParsed
             ELSE IsoToYmd(year, iso_week, iso_day)
        ELSE IF month < 0 THEN NotParsed
        ELSE IF uses_separator /\ At(s, p + 2) # "-" THEN NotParsed
        ELSE IF day < 0 THEN NotParsed
        ELSE IF year < 1 \/ month \notin 1..12 THEN NotParsed
        ELSE IF day \notin 1..DaysInMonth(year, month) THEN NotParsed
        ELSE [ok |-> TRUE, date |-> [y |-> year, m |-> month, d |-> day]]

\* the factor that makes microseconds of a fraction of n digits
FractionCorrection(n) ==
    CASE n = 1 -> 100000 [] n = 2 -> 10000 [] n = 3 -> 1000
      [] n = 4 -> 100 [] n = 5 -> 10 [] OTHER -> 1

\* parse_hh_mm_ss_ff from the fraction on: at most six digits are read, the
\* digits after them are skipped; rest tells whether the text goes on after
\* them
ParseFraction(s, p, p_end, vals) ==
    LET to_parse == Min(p_end - p, 6)
        microsecond == ParseDigits(s, p, to_parse)
    IN  IF microsecond < 0 THEN NotParsed
        ELSE [ok   |-> TRUE,
              vals |-> [vals EXCEPT ![4] = microsecond * FractionCorrection(to_parse)],
              rest |-> At(s, DigitsEnd(s, p + to_parse)) # ""]

\* parse_hh_mm_ss_ff(tstr, tstr_end), the loop from component i on:
\* HH[:MM[:SS]] or HH[MM[SS]], then a fraction after "." or ","; vals are
\* the hour, minute, second and microsecond read so far
RECURSIVE ParseHhMmSsFf(_, _, _, _, _, _)
ParseHhMmSsFf(s, p, p_end, i, has_separator, vals) ==
    LET val == ParseDigits(s, p, 2)
        c == At(s, p + 2)
        sep == IF i = 0 THEN c = ":" ELSE has_separator
        read == [vals EXCEPT ![i + 1] = val]
    IN  IF i = 3 THEN ParseFraction(s, p, p_end, vals)
        ELSE IF val < 0 THEN NotParsed
        ELSE IF p + 3 >= p_end THEN [ok |-> TRUE, vals |-> read, rest |-> c # ""]
        ELSE IF sep /\ c = ":" THEN ParseHhMmSsFf(s, p + 3, p_end, i + 1, sep, read)
        ELSE IF c \in {".", ","} THEN ParseFraction(s, p + 3, p_end, read)
        ELSE IF ~sep THEN ParseHhMmSsFf(s, p + 2, p_end, i + 1, sep, read)
        ELSE NotParsed

\* where the UTC offset of the time part that starts at p begins: the first
\* "Z", "+" or "-", the end of the text when it has none
TzinfoPos(s, p) ==
    LET len == Len(s)
        marks == {i \in p..(len - 1) : At(s, i) \in {"Z", "+", "-"}}
    IN  IF marks # {} THEN CHOOSE i \in marks : \A j \in marks : i <= j
        ELSE IF p < len THEN len
        ELSE p + 1

\* the range checks of the datetime and timezone constructors on the time of
\* day (time) and the UTC offset (tz) that parse_hh_mm_ss_ff read before and
\* after tzinfo_pos.  "Z" must end the text; an offset of zero seconds is UTC
TimeAndOffset(s, tzinfo_pos, time, tz) ==
    LET len == Len(s)
        tzoffset == tz.vals[1] * 3600 + tz.vals[2] * 60 + tz.vals[3]
        naive == [ok |-> TRUE, vals |-> time.vals, aware |-> FALSE,
                  tzsign |-> 1, tzoffset |-> 0, tzmicrosecond |-> 0]
    IN  IF ~time.ok THEN NotParsed
        ELSE IF time.vals[1] > 23 \/ time.vals[2] > 59 \/ time.vals[3] > 59 THEN NotParsed
        ELSE IF tzinfo_pos >= len THEN (IF time.rest THEN NotParsed ELSE naive)
        ELSE IF At(s, tzinfo_pos) = "Z"
        THEN IF tzinfo_pos + 1 # len THEN NotParsed ELSE [naive EXCEPT !.aware = TRUE]
        ELSE IF ~tz.ok \/ tz.rest THEN NotParsed
        ELSE IF tzoffset = 0 THEN [naive EXCEPT !.aware = TRUE]
        ELSE IF tzoffset >= 86400 THEN NotParsed
        ELSE [naive EXCEPT !.aware = TRUE,
                           !.tzsign = IF At(s, tzinfo_pos) = "-" THEN -1 ELSE 1,
                           !.tzoffset = tzoffset,
                           !.tzmicrosecond = tz.vals[4]]

\* the time part from p on with its UTC offset from tzinfo_pos on
ParseTimeAndOffset(s, p, tzinfo_pos) ==
    TimeAndOffset(s, tzinfo_pos,
                  ParseHhMmSsFf(s, p, tzinfo_pos, 0, TRUE, <<0, 0, 0, 0>>),
                  ParseHhMmSsFf(s, tzinfo_pos + 1, Len(s), 0, TRUE, <<0, 0, 0, 0>>))

\* parse_isoformat_time on the text from position p on: the time of day
\* and, when the text has one, the UTC offset (sign, seconds, microseconds)
ParseIsoformatTime(s, p) == ParseTimeAndOffset(s, p, TzinfoPos(s, p))

\* the datetime made of the date and the time read before and after the
\* separator
DateAndTime(len, separator_location, date, time) ==
    IF len < 7 THEN NotParsed
    ELSE IF ~date.ok THEN NotParsed
    ELSE IF len <= separator_location
    THEN [ok |-> TRUE, date |-> date.date, vals |-> <<0, 0, 0, 0>>, aware |-> FALSE,
          tzsign |-> 1, tzoffset |-> 0, tzmicrosecond |-> 0]
    ELSE IF ~time.ok THEN NotParsed
    ELSE time @@ [date |-> date.date]

\* the date up to the separator and the time after it
ParseAround(date_string, separator_location) ==
    DateAndTime(Len(date_string), separator_location,
                ParseIsoformatDate(date_string, separator_location),
                ParseIsoformatTime(date_string, separator_location + 1))

\* datetime.fromisoformat(date_string) of Python 3.11: ok is FALSE where it
\* raises ValueError; else the date, the time of day and the UTC offset, aware
\* telling whether the text had one.  Any one character separates the date
\* from the time.
fromisoformat(date_string) ==
    ParseAround(date_string, FindIsoformatSeparator(date_string))

\* s.replace('Z', '+00:00')
RECURSIVE ReplaceZ(_)
ReplaceZ(s) ==
    IF s = "" THEN ""
    ELSE (IF CharAt(s, 1) = "Z" THEN "+00:00" ELSE CharAt(s, 1))
             \o ReplaceZ(SubSeq(s, 2, Len(s)))

\* a point in time: the ordinal of its day in UTC, the second of that day
\* and the microsecond
Instant(day, secs, us) ==
    LET s1 == IF us < 0 THEN secs - 1 ELSE IF us >= 1000000 THEN secs + 1 ELSE secs
        u1 == IF us < 0 THEN us + 1000000 ELSE IF us >= 1000000 THEN us - 1000000 ELSE us
        d1 == IF s1 < 0 THEN day - 1 ELSE IF s1 >= 86400 THEN day + 1 ELSE day
        s2 == IF s1 < 0 THEN s1 + 86400 ELSE IF s1 >= 86400 THEN s1 - 86400 ELSE s1
    IN  [day |-> d1, secs |-> s2, us |-> u1]

\* the point in time of a datetime with its wall time read as UTC:
\* dt.replace(tzinfo=timezone.utc)
WallTimeAsUtc(dt) ==
    Instant(YmdToOrd(dt.date), dt.vals[1] * 3600 + dt.vals[2] * 60 + dt.vals[3], dt.vals[4])

\* the point in time of a datetime: its wall time less its UTC offset, the
\* wall time itself for a naive datetime made UTC
UtcInstant(dt) ==
    Instant(YmdToOrd(dt.date),
            dt.vals[1] * 3600 + dt.vals[2] * 60 + dt.vals[3] - dt.tzsign * dt.tzoffset,
            dt.vals[4] - dt.tzsign * dt.tzmicrosecond)

\* the due_date get_task_stats compares, from the stored text: the text is
\* parsed with every "Z" replaced by "+00:00" and, when that raises
\* ValueError, parsed as it is and its wall time taken as UTC; ok is FALSE
\* when both raise and the task is skipped
DueDateOf(replaced, plain) ==
    IF replaced.ok THEN [ok |-> TRUE, at |-> UtcInstant(replaced)]
    ELSE IF plain.ok THEN [ok |-> TRUE, at |-> WallTimeAsUtc(plain)]
    ELSE NotParsed

DueDate(due_date_str) ==
    DueDateOf(fromisoformat(ReplaceZ(due_date_str)), fromisoformat(due_date_str))

\* datetime.now(timezone.utc) + timedelta(days=n)
UtcNowPlus(n) ==
    Instant(YmdToOrd(TodayDate) + n, 3600 * NowTime.h + 60 * NowTime.mi + NowTime.s, 0)

\* a < b for two points in time
DateTimeLess(a, b) ==
    \/ a.day < b.day
    \/ a.day = b.day /\ a.secs < b.secs
    \/ a.day = b.day /\ a.secs = b.secs /\ a.us < b.us

\* `due_date < now` of the loop that counts the overdue tasks and
\* `now <= due_date <= week_end` of the loop that counts the tasks due this
\* week, for a due date that was parsed
IsOverdue(due) == due.ok /\ DateTimeLess(due.at, UtcNowPlus(0))
IsDueThisWeek(due) ==
    /\ due.ok
    /\ ~DateTimeLess(due.at, UtcNowPlus(0))
    /\ ~DateTimeLess(UtcNowPlus(7), due.at)

(***************************************************************************)
(* DateParser and PriorityValidator (task_management_agent.py)             *)
(***************************************************************************)
\* daily_keywords of DateParser.parse
ParserDailyKeywords ==
    {"every day", "everyday", "daily", "each day", "recurring",
     "every morning", "every night", "every evening"}

\* DateParser.parse without lower(): the keywords match in lower case only
ParseCaseSensitive(date_str) ==
    IF ~Truthy(date_str) THEN None
    ELSE
    LET date_lower == Strip(date_str)
        today == TodayDate
        head == SubSeq(date_str, 1, Min(10, Len(date_str)))
    IN
    IF Contains(date_lower, "today") THEN FormatDate(today)
    ELSE IF \/ Contains(date_lower, "tomorrow")
            \/ Contains(date_lower, "tmrw")
            \/ Contains(date_lower, "tommorow")
         THEN FormatDate(AddDays(today, 1))
    ELSE IF Contains(date_lower, "next week") \/ Contains(date_lower, "in a week")
         THEN FormatDate(AddDays(today, 7))
    ELSE IF Contains(date_lower, "next month") \/ Contains(date_lower, "in a month")
         THEN FormatDate(AddDays(today, 30))
    ELSE IF Contains(date_lower, "in 2 days") \/ Contains(date_lower, "in two days")
         THEN FormatDate(AddDays(today, 2))
    ELSE IF Contains(date_lower, "in 3 days") \/ Contains(date_lower, "in three days")
         THEN FormatDate(AddDays(today, 3))
    ELSE IF AnyIn(ParserDailyKeywords, date_lower) THEN None
    ELSE IF StrptimeOk(head)
         THEN LET parsed == Strptime(head) IN
              IF parsed.y < today.y \/ parsed.y > today.y + 1
              THEN FormatDate(AddDays(today, 1))
              ELSE FormatDate(parsed)
    ELSE None

\* DateParser.parse without the check of the year
ParseAnyYear(date_str) ==
    IF ~Truthy(date_str) THEN None
    ELSE
    LET date_lower == Strip(Lower(date_str))
        today == TodayDate
        head == SubSeq(date_str, 1, Min(10, Len(date_str)))
    IN
    IF Contains(date_lower, "today") THEN FormatDate(today)
    ELSE IF \/ Contains(date_lower, "tomorrow")
            \/ Contains(date_lower, "tmrw")
            \/ Contains(date_lower, "tommorow")
         THEN FormatDate(AddDays(today, 1))
    ELSE IF Contains(date_lower, "next week") \/ Contains(date_lower, "in a week")
         THEN FormatDate(AddDays(today, 7))
    ELSE IF Contains(date_lower, "next month") \/ Contains(date_lower, "in a month")
         THEN FormatDate(AddDays(today, 30))
    ELSE IF Contains(date_lower, "in 2 days") \/ Contains(date_lower, "in two days")
         THEN FormatDate(AddDays(today, 2))
    ELSE IF Contains(date_lower, "in 3 days") \/ Contains(date_lower, "in three days")
         THEN FormatDate(AddDays(today, 3))
    ELSE IF AnyIn(ParserDailyKeywords, date_lower) THEN None
    ELSE IF StrptimeOk(head) THEN FormatDate(Strptime(head))
    ELSE None

\* DateParser.parse: a "YYYY-MM-DD" string or None
DateParser_parse(date_str) ==
    IF ~Truthy(date_str) THEN None
    ELSE
    LET date_lower == Strip(Lower(date_str))
        today == TodayDate
        head == SubSeq(date_str, 1, Min(10, Len(date_str)))
    IN
    IF Contains(date_lower, "today") THEN FormatDate(today)
    ELSE IF \/ Contains(date_lower, "tomorrow")
            \/ Contains(date_lower, "tmrw")
            \/ Contains(date_lower, "tommorow")
         THEN FormatDate(AddDays(today, 1))
    ELSE IF Contains(date_lower, "next week") \/ Contains(date_lower, "in a week")
         THEN FormatDate(AddDays(today, 7))
    ELSE IF Contains(date_lower, "next month") \/ Contains(date_lower, "in a month")
         THEN FormatDate(AddDays(today, 30))
    ELSE IF Contains(date_lower, "in 2 days") \/ Contains(date_lower, "in two days")
         THEN FormatDate(AddDays(today, 2))
    ELSE IF Contains(date_lower, "in 3 days") \/ Contains(date_lower, "in three days")
         THEN FormatDate(AddDays(today, 3))
    ELSE IF AnyIn(ParserDailyKeywords, date_lower) THEN None
    ELSE IF StrptimeOk(head)
         THEN LET parsed == Strptime(head) IN
              IF parsed.y < today.y \/ parsed.y > today.y + 1
              THEN FormatDate(AddDays(today, 1))
              ELSE FormatDate(parsed)
    ELSE None

VALID_PRIORITIES == {"low", "medium", "high"}

\* PriorityValidator.validate
PriorityValidator_validate(priority) ==
    IF ~Truthy(priority) THEN "medium"
    ELSE LET normalized == Strip(Lower(priority)) IN
         IF normalized \in VALID_PRIORITIES THEN normalized ELSE "medium"

\* _validate_priority without the default for an empty priority
ValidateNoDefault(priority) ==
    IF ~Truthy(priority) THEN priority
    ELSE LET normalized == Strip(Lower(priority)) IN
         IF normalized \in VALID_PRIORITIES THEN normalized ELSE "medium"

\* TaskOperations._validate_priority
TO_validate_priority(priority) ==
    IF ~Truthy(priority) THEN "medium"
    ELSE LET normalized == Strip(Lower(priority)) IN
         IF normalized \in VALID_PRIORITIES THEN normalized ELSE "medium"

(***************************************************************************)
(* Task items and the per-user task list (user_data.py)                    *)
(***************************************************************************)
\* an empty dict
EmptyDict == <<>>

\* TaskItem.create; id is the value generate_task_id() returned, t the time
TaskItem_create(id, description, priority, tags, due_date, is_daily, t) ==
    [id           |-> id,
     description  |-> description,
     priority     |-> priority,
     tags         |-> tags,
     due_date     |-> due_date,
     is_completed |-> FALSE,
     is_daily     |-> is_daily,
     created_at   |-> t,
     updated_at   |-> t]

\* UserData.add_task: appends, with no look at the ids already in the list
UD_add_task(ts, task) == Append(ts, task)

\* index of the first task with this id, 0 when there is none
IndexById(ts, task_id) ==
    IF \E i \in 1..Len(ts) : ts[i].id = task_id
    THEN CHOOSE i \in 1..Len(ts) :
             ts[i].id = task_id /\ \A j \in 1..(i - 1) : ts[j].id # task_id
    ELSE 0

\* UserData.get_task, as the index of the task returned (0 for None)
UD_get_task(ts, task_id) == IndexById(ts, task_id)

\* dict.update
DictUpdate(d, updates) ==
    [f \in DOMAIN d \cup DOMAIN updates |->
        IF f \in DOMAIN updates THEN updates[f] ELSE d[f]]

\* UserData.update_task: the first task with the id gets the updates and a new
\* updated_at
UD_update_task(ts, task_id, updates, t) ==
    LET i == IndexById(ts, task_id) IN
    IF i = 0 THEN ts
    ELSE [ts EXCEPT ![i] = [DictUpdate(@, updates) EXCEPT !.updated_at = t]]

RemoveAt(ts, i) == SubSeq(ts, 1, i - 1) \o SubSeq(ts, i + 1, Len(ts))

\* UserData.delete_task: pops the first task with the id
UD_delete_task(ts, task_id) ==
    LET i == IndexById(ts, task_id) IN
    IF i = 0 THEN ts ELSE RemoveAt(ts, i)

(***************************************************************************)
(* UserDataRepository (user_data_repository.py)                            *)
(***************************************************************************)
\* the partial-match loop of find_task_by_description, from task i on
RECURSIVE PartialLoop(_, _, _)
PartialLoop(ts, description_lower, i) ==
    IF i > Len(ts) THEN 0
    ELSE LET task_desc == Lower(ts[i].description) IN
         IF Contains(task_desc, description_lower) \/ Contains(description_lower, task_desc)
         THEN i
         ELSE PartialLoop(ts, description_lower, i + 1)

\* find_task_by_description without its exact-match loop
FindSubstringFirst(ts, description) ==
    PartialLoop(ts, Strip(Lower(description)), 1)

\* the exact-match loop of find_task_by_description, from task i on
RECURSIVE ExactLoop(_, _, _)
ExactLoop(ts, description_lower, i) ==
    IF i > Len(ts) THEN 0
    ELSE IF Lower(ts[i].description) = description_lower THEN i
    ELSE ExactLoop(ts, description_lower, i + 1)

\* the starts-with loop of find_task_by_description, from task i on
RECURSIVE StartsLoop(_, _, _)
StartsLoop(ts, description_lower, i) ==
    IF i > Len(ts) THEN 0
    ELSE LET task_desc == Lower(ts[i].description) IN
         IF StartsWith(task_desc, description_lower) \/ StartsWith(description_lower, task_desc)
         THEN i
         ELSE StartsLoop(ts, description_lower, i + 1)

\* UserDataRepository.find_task_by_description, as the index of the task
\* returned (0 for None)
find_task_by_description(ts, description) ==
    LET description_lower == Strip(Lower(description))
        exact == ExactLoop(ts, description_lower, 1)
        partial == PartialLoop(ts, description_lower, 1)
    IN  IF exact # 0 THEN exact
        ELSE IF partial # 0 THEN partial
        ELSE StartsLoop(ts, description_lower, 1)

\* tasks.sort(key=created_at, reverse=True): a stable sort, so the task at
\* position i is placed after every task with a later created_at and after
\* the tasks before it with the same created_at
SortByCreatedDesc(ts) ==
    LET n == Len(ts)
        Precedes(j, i) ==
            \/ ts[j].created_at > ts[i].created_at
            \/ ts[j].created_at = ts[i].created_at /\ j < i
        place == [i \in 1..n |-> 1 + Cardinality({j \in 1..n : Precedes(j, i)})]
        \* the same table with its values computed once
        placed == place @@ <<>>
    IN  [k \in 1..n |-> ts[CHOOSE i \in 1..n : placed[i] = k]]

\* an Optional[bool]: <<>> is None, <<b>> is b
NoBool == <<>>

\* get_tasks that pages the list before it sorts it
PageBeforeSort(ts, skip, limit, is_completed, priority, search, is_daily) ==
    LET ByDone(task) == task.is_completed = is_completed[1]
        ByPrio(task) == task.priority = priority
        BySearch(task) == Contains(Lower(task.description), Lower(search))
        ByDaily(task) == task.is_daily = is_daily[1]
        f1 == IF is_completed # NoBool THEN SelectSeq(ts, ByDone) ELSE ts
        f2 == IF Truthy(priority) THEN SelectSeq(f1, ByPrio) ELSE f1
        f3 == IF Truthy(search) THEN SelectSeq(f2, BySearch) ELSE f2
        f4 == IF is_daily # NoBool THEN SelectSeq(f3, ByDaily) ELSE f3
        paged == SubSeq(f4, skip + 1, Min(Len(f4), skip + limit))
    IN  [items  |-> SortByCreatedDesc(paged),
         total  |-> Len(f4),
         stored |-> ts]

\* UserDataRepository.get_tasks.  With no filter given the list that is
\* sorted is user_data.tasks itself, so the stored order changes: stored is
\* the user's list afterwards.
get_tasks(ts, skip, limit, is_completed, priority, search, is_daily) ==
    LET ByDone(task) == task.is_completed = is_completed[1]
        ByPrio(task) == task.priority = priority
        BySearch(task) == Contains(Lower(task.description), Lower(search))
        ByDaily(task) == task.is_daily = is_daily[1]
        f1 == IF is_completed # NoBool THEN SelectSeq(ts, ByDone) ELSE ts
        f2 == IF Truthy(priority) THEN SelectSeq(f1, ByPrio) ELSE f1
        f3 == IF Truthy(search) THEN SelectSeq(f2, BySearch) ELSE f2
        f4 == IF is_daily # NoBool THEN SelectSeq(f3, ByDaily) ELSE f3
        sorted == SortByCreatedDesc(f4)
        aliased == /\ ts # <<>>
                   /\ is_completed = NoBool /\ ~Truthy(priority)
                   /\ ~Truthy(search) /\ is_daily = NoBool
    IN  [items  |-> SubSeq(sorted, skip + 1, Min(Len(sorted), skip + limit)),
         total  |-> Len(sorted),
         stored |-> IF aliased THEN sorted ELSE ts]

\* round(completed / total * 100, 2) in hundredths, for two floats that are
\* whole numbers, total below 4000.  round() rounds half to even on the
\* double, which is the exact quotient wherever that is no tie; a tie is
\* completed/total = n/200 with n odd, its double is not exact and lies on
\* the odd side for the reduced fractions of FloatTies.
FloatTies ==
    {<<23, 160>>, <<49, 160>>, <<51, 160>>, <<87, 160>>, <<93, 160>>,
     <<109, 800>>, <<203, 800>>, <<207, 800>>, <<249, 800>>, <<251, 800>>,
     <<427, 800>>, <<431, 800>>, <<439, 800>>, <<461, 800>>, <<469, 800>>,
     <<473, 800>>}

RECURSIVE Gcd(_, _)
Gcd(a, b) == IF b = 0 THEN a ELSE Gcd(b, a % b)

CompletionRate100(completed, total) ==
    LET q == (completed * 10000) \div total
        r == (completed * 10000) % total
        g == Gcd(completed, total)
        even == IF q % 2 = 0 THEN q ELSE q + 1
        odd == IF q % 2 = 0 THEN q + 1 ELSE q
    IN  IF total <= 0 THEN 0
        ELSE IF 2 * r < total THEN q
        ELSE IF 2 * r > total THEN q + 1
        ELSE IF <<completed \div g, total \div g>> \in FloatTies THEN odd
        ELSE even

\* str() of a float given in hundredths
FloatStr(h) ==
    ToString(h \div 100) \o "." \o
        (IF h % 10 = 0 THEN ToString((h % 100) \div 10) ELSE Pad2(h % 100))

\* UserData.get_task_stats, the rates written as str() writes the floats.
\* updated_at is a tick of the model's clock, a time of the run under way,
\* so every task was updated in the last 7 days and counts for the weekly
\* rate.
UD_get_task_stats(ts) ==
    LET Done(task) == task.is_completed
        HighPending(task) == ~task.is_completed /\ task.priority = "high"
        Overdue(task) ==
            /\ ~task.is_completed
            /\ Truthy(task.due_date)
            /\ IsOverdue(DueDate(task.due_date))
        DueThisWeek(task) ==
            /\ ~task.is_completed
            /\ Truthy(task.due_date)
            /\ IsDueThisWeek(DueDate(task.due_date))
        total == Len(ts)
        completed == Len(SelectSeq(ts, Done))
        weekly_total == total
        weekly_completed == completed
    IN  [total_tasks            |-> total,
         completed_tasks        |-> completed,
         pending_tasks          |-> total - completed,
         completion_rate        |-> FloatStr(CompletionRate100(completed, total)),
         weekly_completion_rate |-> FloatStr(CompletionRate100(weekly_completed, weekly_total)),
         high_priority_pending  |-> Len(SelectSeq(ts, HighPending)),
         overdue_tasks          |-> Len(SelectSeq(ts, Overdue)),
         tasks_due_this_week    |-> Len(SelectSeq(ts, DueThisWeek))]

\* UserDataRepository.get_task_stats: row tells whether the user has a row
\* of user_data; a user without one has no task
get_task_stats(row, ts) ==
    IF ~row
    THEN [total_tasks     |-> 0,
          completed_tasks |-> 0,
          pending_tasks   |-> 0,
          completion_rate |-> "0.0"]
    ELSE UD_get_task_stats(ts)

(***************************************************************************)
(* TaskOperations (task_operations.py)                                     *)
(*                                                                         *)
(* Each operation is a function of the user's task list ts and the time t  *)
(* of the write; its value is [ts: the list afterwards, wrote: whether the *)
(* list was saved, res: the dict returned, or the exception raised].       *)
(***************************************************************************)
\* a dict the operation returned
Returned(ts, wrote, res) == [ts |-> ts, wrote |-> wrote, res |-> res]

\* an exception that left the operation
Raised(exc, text) == [raised |-> exc, text |-> text]

IsRaised(res) == "raised" \in DOMAIN res

\* TaskOperations._format_response
format_response(success, message, data, error) ==
    [success |-> success, message |-> message]
        @@ data
        @@ (IF Truthy(error) THEN [error |-> error] ELSE EmptyDict)

\* daily_keywords of TaskOperations.create_task
OpsDailyKeywords ==
    {"daily", "every day", "everyday", "each day", "recurring",
     "every morning", "every night", "every evening", "day at"}

\* the tags test of TaskOperations.create_task
OpsTagsDaily(tags_lower) ==
    Contains(tags_lower, "daily") \/ Contains(tags_lower, "recurring")

\* TaskOperations.create_task; newid is what generate_task_id() returns
TO_create_task(ts, description, priority, due_date, tags, is_daily, newid, t) ==
    IF ~Truthy(description) \/ Strip(description) = ""
    THEN Returned(ts, FALSE,
             format_response(FALSE, "Task description cannot be empty",
                             EmptyDict, "validation_error"))
    ELSE
    LET desc == Strip(description)
        validated_priority == TO_validate_priority(priority)
        fromDue == Truthy(due_date) /\ ~is_daily
                       /\ AnyIn(OpsDailyKeywords, Lower(due_date))
        daily1 == is_daily \/ fromDue
        due1 == IF fromDue THEN None ELSE due_date
        fromTags == Truthy(tags) /\ ~daily1 /\ OpsTagsDaily(Lower(tags))
        daily2 == daily1 \/ fromTags
        fromDesc == ~daily2 /\ AnyIn(OpsDailyKeywords, Lower(desc))
        daily3 == daily2 \/ fromDesc
        task == TaskItem_create(newid, desc, validated_priority,
                                IF Truthy(tags) THEN Strip(tags) ELSE None,
                                due1, daily3, t)
    IN  Returned(UD_add_task(ts, task), TRUE,
            format_response(TRUE, "Task '" \o desc \o "' created successfully!",
                            [task |-> task], None))

\* the largest page list_tasks asks for
MaxPageSize == 100

\* TaskOperations.list_tasks
TO_list_tasks(ts, is_completed, priority, limit) ==
    LET lim == Min(Max(1, limit), MaxPageSize)
        validated_priority ==
            IF Truthy(priority) THEN TO_validate_priority(priority) ELSE None
        got == get_tasks(ts, 0, lim, is_completed, validated_priority, None, NoBool)
    IN  Returned(got.stored, FALSE,
            format_response(TRUE, "Found " \o ToString(got.total) \o " task(s)",
                            [tasks |-> got.items, total |-> got.total,
                             page |-> 1, page_size |-> lim],
                            None))

\* the status sentence of complete_task
StatusWord(is_completed) == IF is_completed THEN "completed" ELSE "uncompleted"

\* TaskOperations.complete_task that sets the flag instead of toggling it
TO_complete_task_force(ts, task_id, t) ==
    IF UD_get_task(ts, task_id) = 0
    THEN Returned(ts, FALSE,
             Raised("TaskNotFoundError", "Task " \o task_id \o " not found"))
    ELSE LET after == UD_update_task(ts, task_id, [is_completed |-> TRUE], t)
             updated_task == after[IndexById(after, task_id)]
         IN  Returned(after, TRUE,
                 format_response(TRUE,
                     "Task marked as " \o StatusWord(updated_task.is_completed) \o "!",
                     [task |-> updated_task], None))

\* TaskOperations.complete_task: TaskNotFoundError is re-raised
TO_complete_task(ts, task_id, t) ==
    IF UD_get_task(ts, task_id) = 0
    THEN Returned(ts, FALSE,
             Raised("TaskNotFoundError", "Task " \o task_id \o " not found"))
    ELSE LET current_status == ts[UD_get_task(ts, task_id)].is_completed
             new_status == ~current_status
             after == UD_update_task(ts, task_id, [is_completed |-> new_status], t)
             updated_task == after[IndexById(after, task_id)]
         IN  Returned(after, TRUE,
                 format_response(TRUE,
                     "Task marked as " \o StatusWord(updated_task.is_completed) \o "!",
                     [task |-> updated_task], None))

\* the task update_task and delete_task act on: by id first, then by
\* description (its index, 0 when neither resolves)
Resolve(ts, task_id_or_description) ==
    IF UD_get_task(ts, task_id_or_description) # 0
    THEN UD_get_task(ts, task_id_or_description)
    ELSE find_task_by_description(ts, task_id_or_description)

\* update_data of TaskOperations.update_task, once the description is known
\* not to be empty
UpdateData(description, priority, due_date, tags, is_daily) ==
    (IF description # None THEN [description |-> Strip(description)] ELSE EmptyDict)
    @@ (IF priority # None
        THEN [priority |-> TO_validate_priority(priority)] ELSE EmptyDict)
    @@ (IF due_date # None THEN [due_date |-> due_date] ELSE EmptyDict)
    @@ (IF tags # None
        THEN [tags |-> IF Truthy(tags) THEN Strip(tags) ELSE None] ELSE EmptyDict)
    @@ (IF is_daily # NoBool THEN [is_daily |-> is_daily[1]] ELSE EmptyDict)

\* no daily keyword at all
NoDailyKeywords == {}

\* TaskOperations.update_task
TO_update_task(ts, task_id_or_description, description, priority, due_date, tags, is_daily, t) ==
    LET i == Resolve(ts, task_id_or_description) IN
    IF i = 0
    THEN Returned(ts, FALSE,
             format_response(FALSE,
                 "Task '" \o task_id_or_description \o "' not found",
                 EmptyDict, "validation_error"))
    ELSE IF description # None /\ Strip(description) = ""
    THEN Returned(ts, FALSE,
             format_response(FALSE, "Description cannot be empty",
                             EmptyDict, "validation_error"))
    ELSE
    LET task_id == ts[i].id
        update_data == UpdateData(description, priority, due_date, tags, is_daily)
    IN
    IF update_data = EmptyDict
    THEN Returned(ts, FALSE,
             format_response(FALSE, "No fields to update",
                             EmptyDict, "validation_error"))
    ELSE LET after == UD_update_task(ts, task_id, update_data, t)
         IN  Returned(after, TRUE,
                 format_response(TRUE, "Task updated successfully!",
                                 [task |-> after[IndexById(after, task_id)]], None))

\* TaskOperations.delete_task
TO_delete_task(ts, task_id_or_description) ==
    LET i == Resolve(ts, task_id_or_description) IN
    IF i = 0
    THEN Returned(ts, FALSE,
             format_response(FALSE,
                 "Task '" \o task_id_or_description \o "' not found",
                 EmptyDict, "task_not_found"))
    ELSE LET task == ts[i]
             task_id == task.id
         IN  Returned(UD_delete_task(ts, task_id), TRUE,
                 format_response(TRUE,
                     "Task '" \o task.description \o "' deleted successfully!",
                     [task_id |-> task_id], None))

\* TaskOperations.get_stats
TO_get_stats(row, ts) ==
    LET stats == get_task_stats(row, ts)
    IN  Returned(ts, FALSE,
            format_response(TRUE,
                "You have " \o ToString(stats.total_tasks) \o " total tasks with "
                    \o stats.completion_rate \o "% completion rate",
                [stats |-> stats], None))

(***************************************************************************)
(* The tools of the agent (task_management_agent.py)                       *)
(*                                                                         *)
(* bound is the user of the TaskOperations that get_task_operations()      *)
(* returns, None when no TaskOperations is set.                            *)
(***************************************************************************)
\* the longest description create_real_task accepts
MaxDescriptionLen == 500

\* daily_keywords of create_real_task
AgentDailyKeywords ==
    {"daily", "every day", "everyday", "each day", "recurring",
     "every morning", "every night", "every evening", "every afternoon",
     "each morning", "each night", "each evening",
     "am daily", "pm daily", "daily at", "repeat daily",
     "day at", "every single day"}

\* the tags test of create_real_task
AgentTagsDaily(tags_lower) ==
    \/ Contains(tags_lower, "daily")
    \/ Contains(tags_lower, "recurring")
    \/ Contains(tags_lower, "everyday")

\* the dict the tools other than create_real_task return without a binding
Unavailable ==
    [success |-> FALSE,
     message |-> "Task operations not available. Please try again."]

\* create_real_task
create_real_task(bound, ts, description, priority, due_date, tags, is_daily, newid, t) ==
    IF bound = None
    THEN Returned(ts, FALSE, Unavailable @@ [error |-> "context_unavailable"])
    ELSE
    LET desc == Strip(description) IN
    IF desc = "" \/ Len(desc) > MaxDescriptionLen
    THEN Returned(ts, FALSE,
             [success |-> FALSE,
              message |-> "Failed to create task: Description must be 1-500 characters",
              error   |-> "creation_failed"])
    ELSE
    LET prio == PriorityValidator_validate(priority)
        fromDue == Truthy(due_date) /\ ~is_daily
                       /\ AnyIn(AgentDailyKeywords, Lower(due_date))
        daily1 == is_daily \/ fromDue
        fromDesc == AnyIn(AgentDailyKeywords, Lower(desc)) /\ ~daily1
        daily2 == daily1 \/ fromDesc
        fromTags == Truthy(tags) /\ ~daily2 /\ AgentTagsDaily(Lower(tags))
        daily3 == daily2 \/ fromTags
        due1 == IF fromDue THEN None ELSE due_date
        parsed_date == DateParser_parse(due1)
    IN  TO_create_task(ts, desc, prio, parsed_date,
                       IF Truthy(tags) THEN Strip(tags) ELSE None,
                       daily3, newid, t)

\* list_my_tasks
list_my_tasks(bound, ts, is_completed, priority, limit) ==
    IF bound = None THEN Returned(ts, FALSE, Unavailable)
    ELSE TO_list_tasks(ts, is_completed,
                       IF Truthy(priority)
                       THEN PriorityValidator_validate(priority) ELSE None,
                       Max(1, Min(limit, 100)))

\* complete_my_task
complete_my_task(bound, ts, task_id, t) ==
    IF bound = None THEN Returned(ts, FALSE, Unavailable)
    ELSE TO_complete_task(ts, task_id, t)

\* update_my_task: tags and is_daily are never passed on
update_my_task(bound, ts, task_id_or_description, description, priority, due_date, t) ==
    IF bound = None THEN Returned(ts, FALSE, Unavailable)
    ELSE TO_update_task(ts, task_id_or_description, description,
                        IF Truthy(priority)
                        THEN PriorityValidator_validate(priority) ELSE priority,
                        due_date, None, NoBool, t)

\* delete_my_task
delete_my_task(bound, ts, task_id_or_description) ==
    IF bound = None THEN Returned(ts, FALSE, Unavailable)
    ELSE TO_delete_task(ts, task_id_or_description)

\* get_my_task_stats
get_my_task_stats(bound, row, ts) ==
    IF bound = None THEN Returned(ts, FALSE, Unavailable)
    ELSE TO_get_stats(row, ts)

\* the user of a chat request has a row of user_data: the chat endpoint
\* answers 403 unless the row holds an API key, before it sets the
\* TaskOperations the tools use
ChatUserHasRow == TRUE

(***************************************************************************)
(* State                                                                   *)
(***************************************************************************)
VARIABLES
    sessions,     \* SessionStore._sessions: session id -> SessionManager
    requested,    \* history: the max_messages each SessionManager was built with
    appended,     \* history: per session, the messages appended since the last clear
    msgSeq,       \* history: number of add_message calls made so far
    memRet,       \* the value the last SessionManager read returned
    tasks,        \* user id -> user_data.tasks, the user's task list
    now,          \* the logical clock: tool calls made so far
    task_ops,     \* _current_task_ops.get() in the context that is current: the
                  \* user the TaskOperations serves, None when none is set
    contexts,     \* request -> the value of _current_task_ops in the context of
                  \* the request's asyncio task
    req_pc,       \* request -> "new", "running" or "done"
    history,      \* history: the tool calls made so far, each with its
                  \* arguments, what it returned or raised, and the caller's
                  \* task list before and after it
    llm_calls,    \* history: the Runner.run calls made so far, each with the
                  \* input it was given and the session's messages at the call
    chatRet,      \* what the last run_agent_with_session returned or raised,
                  \* with its arguments and the configuration it resolved
    environ,      \* os.environ: GEMINI_API_KEY and OPENAI_API_KEY
    ai_chats,     \* user id -> user_data.ai_chats, the persisted chat messages
    session_store, \* the global _session_store: <<>> while it is None, else
                  \* <<n>>, n the default_max_messages the store was built with
    coroutines,   \* the SessionManager calls awaited concurrently: for each its
                  \* operation, session, position, locals and return value
    locks         \* session id -> SessionManager._lock: the coroutine holding
                  \* it, 0 when it is free

memVars == <<sessions, requested, appended, msgSeq, memRet>>
storeVars == <<tasks, now, task_ops, contexts, req_pc, history>>
chatVars == <<llm_calls, chatRet, environ, ai_chats, session_store>>
lockVars == <<coroutines, locks>>

vars == <<sessions, requested, appended, msgSeq, memRet,
          tasks, now, task_ops, contexts, req_pc, history,
          llm_calls, chatRet, environ, ai_chats, session_store, coroutines, locks>>

Users == {"u1", "u2"}

\* the requests in flight, each served by an asyncio task of its own
Requests == {"r1", "r2"}

\* no request has started
NoRequests ==
    /\ contexts = [r \in Requests |-> None]
    /\ req_pc = [r \in Requests |-> "new"]

\* request r1 runs for the user and has set its TaskOperations
OneRequest(user) ==
    /\ task_ops = user
    /\ contexts = [r \in Requests |-> IF r = "r1" THEN user ELSE None]
    /\ req_pc = [r \in Requests |-> IF r = "r1" THEN "running" ELSE "new"]

\* no request is being served and no user has a task
StoreIdle ==
    /\ tasks = [u \in Users |-> <<>>]
    /\ now = 0
    /\ task_ops = None
    /\ NoRequests
    /\ history = <<>>

\* the environment with neither key set
NoEnvKeys == [GEMINI_API_KEY |-> None, OPENAI_API_KEY |-> None]

\* no SessionManager call is awaited concurrently
LocksIdle ==
    /\ coroutines = <<>>
    /\ locks = <<>>

\* no chat turn has run
ChatIdle ==
    /\ llm_calls = <<>>
    /\ chatRet = [kind |-> "none"]
    /\ environ = NoEnvKeys
    /\ ai_chats = [u \in Users |-> <<>>]
    /\ session_store = <<>>

(***************************************************************************)
(* SessionManager (session_manager.py)                                     *)
(***************************************************************************)
SessionMessage(role, content) == [role |-> role, content |-> content]

\* deque(maxlen=n).append(x)
DequeAppendNoEvict(d, maxlen, x) == Append(d, x)
DequeAppend(d, maxlen, x) ==
    IF Len(d) >= maxlen THEN Append(Tail(d), x) ELSE Append(d, x)

\* SessionManager.__init__
SessionManager(session_id, max_messages) ==
    [session_id   |-> session_id,
     max_messages |-> Max(2, max_messages),
     messages     |-> <<>>]

\* SessionManager.add_message, the body under self._lock
SM_add_message(sm, role, content) ==
    [sm EXCEPT !.messages =
        DequeAppend(sm.messages, sm.max_messages, SessionMessage(role, content))]

\* SessionManager.get_messages(include_system=False): msg.to_dict() of each
SM_get_messages(sm) == sm.messages

\* SessionManager.get_last_n_messages
SM_get_last_n_messages(sm, n) ==
    IF n > 0
    THEN SubSeq(sm.messages, Max(1, Len(sm.messages) - n + 1), Len(sm.messages))
    ELSE <<>>

\* SessionManager.clear
SM_clear(sm) == [sm EXCEPT !.messages = <<>>]

\* SessionManager.get_message_count
SM_get_message_count(sm) == Len(sm.messages)

(***************************************************************************)
(* One SessionManager driven by its public operations                      *)
(***************************************************************************)
TheSession == "s1"

\* no SessionManager read has returned since the last mutation
NoReturn == [op |-> "none", value |-> 0]

ReqCaps == (-1..MaxSmallCap) \cup {DefaultMaxMessages}

\* role of the k-th appended message: user and assistant turns alternate
RoleOf(k) == IF k % 2 = 1 THEN "user" ELSE "assistant"

\* content of the k-th appended message
ContentOf(k) == "m" \o ToString(k)

InitMemory ==
    /\ \E c \in ReqCaps :
          /\ sessions = (TheSession :> SessionManager(TheSession, c))
          /\ requested = (TheSession :> c)
    /\ appended = (TheSession :> <<>>)
    /\ msgSeq = 0
    /\ memRet = NoReturn
    /\ StoreIdle
    /\ ChatIdle
    /\ LocksIdle

add_message(sid) ==
    /\ sid \in DOMAIN sessions
    /\ msgSeq < MaxAppends
    /\ LET role == RoleOf(msgSeq + 1)
           content == ContentOf(msgSeq + 1) IN
          /\ sessions' = [sessions EXCEPT ![sid] = SM_add_message(@, role, content)]
          /\ appended' = [appended EXCEPT ![sid] = Append(@, SessionMessage(role, content))]
    /\ msgSeq' = msgSeq + 1
    /\ memRet' = NoReturn
    /\ UNCHANGED <<requested, storeVars, chatVars, lockVars>>

clear(sid) ==
    /\ sid \in DOMAIN sessions
    /\ sessions' = [sessions EXCEPT ![sid] = SM_clear(@)]
    /\ appended' = [appended EXCEPT ![sid] = <<>>]
    /\ memRet' = NoReturn
    /\ UNCHANGED <<requested, msgSeq, storeVars, chatVars, lockVars>>

get_message_count(sid) ==
    /\ sid \in DOMAIN sessions
    /\ memRet' = [op |-> "get_message_count", value |-> SM_get_message_count(sessions[sid])]
    /\ UNCHANGED <<sessions, requested, appended, msgSeq, storeVars, chatVars, lockVars>>

NextMemory ==
    \/ add_message(TheSession)
    \/ clear(TheSession)
    \/ get_message_count(TheSession)

SpecMemory == InitMemory /\ [][NextMemory]_vars

(***************************************************************************)
(* Concurrent calls on the SessionManagers of two users.  Each call is a   *)
(* coroutine that acquires the instance's asyncio.Lock, runs the method    *)
(* body and releases the lock.  The model lets another coroutine run       *)
(* between any two steps of a body; the event loop switches only at an     *)
(* await, which is a subset of these interleavings.                        *)
(***************************************************************************)
SessionOps ==
    {"add_message", "get_messages", "get_last_n_messages", "clear",
     "get_message_count"}

\* the session the k-th coroutine works on: every third one on u2's
SessionOf(k) == IF k % 3 = 0 THEN "u2" ELSE "u1"

\* the sessions before the calls: both hold two messages and are full
FullSession(u) ==
    SM_add_message(SM_add_message(SessionManager(u, 2), "user", "old1"),
                   "assistant", "old2")
InitialSessions == [u \in Users |-> FullSession(u)]

\* return values of the SessionManager methods
NotReturned == [kind |-> "pending"]
RetNone == [kind |-> "None"]
RetList(l) == [kind |-> "list", value |-> l]
RetInt(n) == [kind |-> "int", value |-> n]

\* the message the k-th coroutine adds
AddedBy(k) == "new" \o ToString(k)

\* the n the k-th coroutine passes to get_last_n_messages
LastNArg == 1

\* an acquire that never finds the lock taken
LockNeverHeld(l, sid) == TRUE

\* asyncio.Lock.acquire finds the lock free
LockFree(l, sid) == l[sid] = 0

InitLocks ==
    /\ sessions = InitialSessions
    /\ requested = [u \in Users |-> 2]
    /\ appended = [u \in Users |-> SM_get_messages(FullSession(u))]
    /\ msgSeq = 0
    /\ memRet = NoReturn
    /\ StoreIdle
    /\ ChatIdle
    /\ \E ops \in [1..MaxCoroutines -> SessionOps] :
          coroutines = [k \in 1..MaxCoroutines |->
                           [op |-> ops[k], sid |-> SessionOf(k), pc |-> "acquire",
                            i |-> 0, messages |-> <<>>, ret |-> NotReturned]]
    /\ locks = [u \in Users |-> 0]

\* async with self._lock: __aenter__
AcquireLock ==
    \E k \in DOMAIN coroutines :
        /\ coroutines[k].pc = "acquire"
        /\ LockFree(locks, coroutines[k].sid)
        /\ locks' = [locks EXCEPT ![coroutines[k].sid] = k]
        /\ coroutines' = [coroutines EXCEPT ![k].pc = "body"]
        /\ UNCHANGED <<memVars, storeVars, chatVars>>

\* the coroutine is in the body of the method op
InBody(k, op) == coroutines[k].pc = "body" /\ coroutines[k].op = op

\* the body returned: the coroutine goes on to release the lock
Return(k, ret) ==
    coroutines' = [coroutines EXCEPT ![k].pc = "release", ![k].ret = ret]

AddMessageBody ==
    \E k \in DOMAIN coroutines :
        /\ InBody(k, "add_message")
        /\ sessions' = [sessions EXCEPT ![coroutines[k].sid] =
                            SM_add_message(@, "user", AddedBy(k))]
        /\ appended' = [appended EXCEPT ![coroutines[k].sid] =
                            Append(@, SessionMessage("user", AddedBy(k)))]
        /\ msgSeq' = msgSeq + 1
        /\ Return(k, RetNone)
        /\ UNCHANGED <<requested, memRet, locks, storeVars, chatVars>>

\* one iteration of `for msg in self._messages`, or the return after the last
GetMessagesStep ==
    \E k \in DOMAIN coroutines :
        /\ InBody(k, "get_messages")
        /\ LET c == coroutines[k]
               deque == sessions[c.sid].messages IN
           IF c.i < Len(deque)
           THEN coroutines' = [coroutines EXCEPT
                                  ![k].messages = Append(@, deque[c.i + 1]),
                                  ![k].i = @ + 1]
           ELSE Return(k, RetList(c.messages))
        /\ UNCHANGED <<memVars, locks, storeVars, chatVars>>

GetLastNBody ==
    \E k \in DOMAIN coroutines :
        /\ InBody(k, "get_last_n_messages")
        /\ Return(k, RetList(SM_get_last_n_messages(sessions[coroutines[k].sid],
                                                    LastNArg)))
        /\ UNCHANGED <<memVars, locks, storeVars, chatVars>>

ClearBody ==
    \E k \in DOMAIN coroutines :
        /\ InBody(k, "clear")
        /\ sessions' = [sessions EXCEPT ![coroutines[k].sid] = SM_clear(@)]
        /\ appended' = [appended EXCEPT ![coroutines[k].sid] = <<>>]
        /\ Return(k, RetNone)
        /\ UNCHANGED <<requested, msgSeq, memRet, locks, storeVars, chatVars>>

GetCountBody ==
    \E k \in DOMAIN coroutines :
        /\ InBody(k, "get_message_count")
        /\ Return(k, RetInt(SM_get_message_count(sessions[coroutines[k].sid])))
        /\ UNCHANGED <<memVars, locks, storeVars, chatVars>>

\* async with self._lock: __aexit__
ReleaseLock ==
    \E k \in DOMAIN coroutines :
        /\ coroutines[k].pc = "release"
        /\ locks' = [locks EXCEPT ![coroutines[k].sid] = 0]
        /\ coroutines' = [coroutines EXCEPT ![k].pc = "done"]
        /\ UNCHANGED <<memVars, storeVars, chatVars>>

NextLocks ==
    \/ AcquireLock
    \/ AddMessageBody
    \/ GetMessagesStep
    \/ GetLastNBody
    \/ ClearBody
    \/ GetCountBody
    \/ ReleaseLock

SpecLocks == InitLocks /\ [][NextLocks]_vars

(***************************************************************************)
(* One request's tool calls on the user's task list                        *)
(***************************************************************************)
\* the values generate_task_id() returns: uuid4 is random, so any of them,
\* whatever ids the list already holds
TaskIds == {"a1b2c3d4", "0f9e8d7c"}

TheUser == "u1"

CreateInputs ==
    {[description |-> " Buy milk ", priority |-> "HIGH", due_date |-> "tomorrow",
      tags |-> " shopping ", is_daily |-> FALSE],
     [description |-> "a1b2c3d4", priority |-> "low", due_date |-> None,
      tags |-> "", is_daily |-> FALSE],
     [description |-> "   ", priority |-> "medium", due_date |-> None,
      tags |-> "", is_daily |-> FALSE]}

Targets == {"a1b2c3d4", "milk", "zzz", "   "}

UpdateInputs ==
    {[description |-> None, priority |-> None, due_date |-> None],
     [description |-> "Buy bread", priority |-> "Low ", due_date |-> None]}

ListInputs ==
    {[is_completed |-> NoBool, priority |-> None, limit |-> 20],
     [is_completed |-> <<FALSE>>, priority |-> "High", limit |-> 0]}

\* the task list the bound TaskOperations works on
CurTasks == IF task_ops = None THEN <<>> ELSE tasks[task_ops]

\* the call made last
LastCall == history[Len(history)]

\* the tool returned: its effect on the list, the clock and the history
Finish(op, args, out) ==
    /\ tasks' = IF task_ops = None THEN tasks
                ELSE [tasks EXCEPT ![task_ops] = out.ts]
    /\ now' = now + 1
    /\ history' = Append(history, [op |-> op, args |-> args, res |-> out.res,
                                    before |-> CurTasks, after |-> out.ts])
    /\ UNCHANGED <<task_ops, contexts, req_pc, memVars, chatVars, lockVars>>

CreateTask ==
    /\ now < MaxClock
    /\ \E inp \in CreateInputs, newid \in TaskIds :
        Finish("create_task", inp @@ [newid |-> newid],
               create_real_task(task_ops, CurTasks, inp.description,
                                inp.priority, inp.due_date, inp.tags,
                                inp.is_daily, newid, now + 1))

ListTasks ==
    /\ now < MaxClock
    /\ \E inp \in ListInputs :
        Finish("list_tasks", inp,
               list_my_tasks(task_ops, CurTasks, inp.is_completed,
                             inp.priority, inp.limit))

CompleteTask ==
    /\ now < MaxClock
    /\ \E task_id \in {"a1b2c3d4", "zzz"} :
        Finish("complete_task", [task_id |-> task_id],
               complete_my_task(task_ops, CurTasks, task_id, now + 1))

UpdateTask ==
    /\ now < MaxClock
    /\ \E target \in Targets, inp \in UpdateInputs :
        Finish("update_task", inp @@ [target |-> target],
               update_my_task(task_ops, CurTasks, target, inp.description,
                              inp.priority, inp.due_date, now + 1))

DeleteTask ==
    /\ now < MaxClock
    /\ \E target \in Targets :
        Finish("delete_task", [target |-> target],
               delete_my_task(task_ops, CurTasks, target))

GetStats ==
    /\ now < MaxClock
    /\ Finish("get_stats", EmptyDict, get_my_task_stats(task_ops, ChatUserHasRow, CurTasks))

(***************************************************************************)
(* The REST API of the tasks (api/routers/tasks.py): what a route does to  *)
(* the stored list ts it loads.  A request body arrives validated by the   *)
(* schemas TaskCreate and TaskUpdate: due_date is a datetime and the tags  *)
(* of an update are a list; a field of an update that is None is left out  *)
(* of the body.                                                            *)
(***************************************************************************)
Pad6(n) == Pad2(n \div 10000) \o Pad2((n \div 100) % 100) \o Pad2(n % 100)

\* datetime.isoformat(): the date, "T", the time with its microseconds when
\* there are any, and the UTC offset of an aware datetime
isoformat(dt) ==
    LET time == Pad2(dt.vals[1]) \o ":" \o Pad2(dt.vals[2]) \o ":" \o Pad2(dt.vals[3])
        micro == IF dt.vals[4] # 0 THEN "." \o Pad6(dt.vals[4]) ELSE ""
        hh == dt.tzoffset \div 3600
        mm == (dt.tzoffset % 3600) \div 60
        ss == dt.tzoffset % 60
        off == (IF dt.tzsign < 0 THEN "-" ELSE "+") \o Pad2(hh) \o ":" \o Pad2(mm)
                  \o (IF ss # 0 \/ dt.tzmicrosecond # 0 THEN ":" \o Pad2(ss) ELSE "")
                  \o (IF dt.tzmicrosecond # 0 THEN "." \o Pad6(dt.tzmicrosecond) ELSE "")
    IN  FormatDate(dt.date) \o "T" \o time \o micro \o (IF dt.aware THEN off ELSE "")

\* ",".join(tags)
RECURSIVE JoinTags(_)
JoinTags(tags) ==
    IF tags = <<>> THEN ""
    ELSE IF Len(tags) = 1 THEN tags[1]
    ELSE tags[1] \o "," \o JoinTags(Tail(tags))

\* what a route answers: the status code and the body, or the detail of the
\* HTTPException
HttpResponse(status_code, body) == [status_code |-> status_code, body |-> body]
HttpNotFound == [status_code |-> 404, detail |-> "Task not found"]

\* task_to_response: the fields of the stored task
task_to_response(task) ==
    [id           |-> task.id,
     description  |-> task.description,
     priority     |-> task.priority,
     tags         |-> task.tags,
     due_date     |-> task.due_date,
     is_completed |-> task.is_completed,
     is_daily     |-> task.is_daily,
     created_at   |-> task.created_at,
     updated_at   |-> task.updated_at]

\* POST /tasks, create_task: UserDataRepository.create_task stores the
\* fields as they are given, the due date as isoformat() writes it
Api_create_task(ts, task_data, newid, t) ==
    LET due_date_str == IF task_data.due_date # <<>>
                        THEN isoformat(task_data.due_date[1]) ELSE None
        task == TaskItem_create(newid, task_data.description, task_data.priority,
                                task_data.tags, due_date_str, task_data.is_daily, t)
    IN  Returned(UD_add_task(ts, task), TRUE, HttpResponse(201, task_to_response(task)))

\* PUT /tasks/{task_id}, update_task: the fields of the body become the
\* updates, the tags joined with "," and the due date as isoformat() writes
\* it; UserDataRepository.update_task applies them to the task with the id
Api_update_task(ts, task_id, task_data, t) ==
    LET updates == [f \in DOMAIN task_data |->
                       IF f = "tags" THEN JoinTags(task_data[f])
                       ELSE IF f = "due_date" THEN isoformat(task_data[f])
                       ELSE task_data[f]]
        after == UD_update_task(ts, task_id, updates, t)
    IN  IF UD_get_task(ts, task_id) = 0 THEN Returned(ts, FALSE, HttpNotFound)
        ELSE Returned(after, TRUE,
                 HttpResponse(200, task_to_response(after[IndexById(after, task_id)])))

\* PATCH /tasks/{task_id}, partial_update_task: the handler of PUT
Api_partial_update_task(ts, task_id, task_data, t) ==
    Api_update_task(ts, task_id, task_data, t)

\* PATCH /tasks/{task_id}/complete, complete_task: is_completed is set to
\* True, whatever it was
Api_complete_task(ts, task_id, t) ==
    LET after == UD_update_task(ts, task_id, [is_completed |-> TRUE], t)
    IN  IF UD_get_task(ts, task_id) = 0 THEN Returned(ts, FALSE, HttpNotFound)
        ELSE Returned(after, TRUE,
                 HttpResponse(200, task_to_response(after[IndexById(after, task_id)])))

\* DELETE /tasks/{task_id}, delete_task
Api_delete_task(ts, task_id) ==
    IF UD_get_task(ts, task_id) = 0 THEN Returned(ts, FALSE, HttpNotFound)
    ELSE Returned(UD_delete_task(ts, task_id), TRUE, HttpResponse(204, None))

\* the datetime of a request body
BodyDueDate == fromisoformat("2025-12-31T10:30")

\* the chat endpoint has set the TaskOperations of TheUser's request
Init ==
    /\ sessions = <<>>
    /\ requested = <<>>
    /\ appended = <<>>
    /\ msgSeq = 0
    /\ memRet = NoReturn
    /\ tasks = [u \in Users |-> <<>>]
    /\ now = 0
    /\ OneRequest(TheUser)
    /\ history = <<>>
    /\ ChatIdle
    /\ LocksIdle

Next ==
    \/ CreateTask
    \/ ListTasks
    \/ CompleteTask
    \/ UpdateTask
    \/ DeleteTask
    \/ GetStats

Spec == Init /\ [][Next]_vars

(***************************************************************************)
(* find_task_by_description applied to stored lists                        *)
(***************************************************************************)
\* descriptions as create and update store them: stripped and not empty
FindDescs == {"Buy milk", "Buy milk and eggs", "milk", "Walk dog"}

FindQueries ==
    {"milk", "MILK", " Buy milk ", "buy milk and eggs today", "Buy", "cat"}

\* the list holding these descriptions, created one after the other
StoredTasks(descs) ==
    [i \in 1..Len(descs) |->
        TaskItem_create("0000000" \o ToString(i), descs[i], "medium", None,
                        None, FALSE, i)]

InitFind ==
    /\ \E n \in 0..MaxFindTasks : \E descs \in [1..n -> FindDescs] :
          /\ tasks = [u \in Users |-> IF u = TheUser THEN StoredTasks(descs) ELSE <<>>]
          /\ now = n
    /\ OneRequest(TheUser)
    /\ history = <<>>
    /\ sessions = <<>>
    /\ requested = <<>>
    /\ appended = <<>>
    /\ msgSeq = 0
    /\ memRet = NoReturn
    /\ ChatIdle
    /\ LocksIdle

FindTask ==
    /\ history = <<>>
    /\ \E description \in FindQueries :
          history' = <<[op     |-> "find_task_by_description",
                        args   |-> [description |-> description],
                        res    |-> [index |-> find_task_by_description(CurTasks, description)],
                        before |-> CurTasks,
                        after  |-> CurTasks]>>
    /\ UNCHANGED <<tasks, now, task_ops, contexts, req_pc, memVars, chatVars, lockVars>>

NextFind == FindTask

SpecFind == InitFind /\ [][NextFind]_vars

(***************************************************************************)
(* create_real_task probed with recurrence keywords in each field          *)
(***************************************************************************)
ProbeInputs ==
    [description : {"Stretch", "Stretch every day", "Call mom EACH day",
                    "Birthday at noon"},
     priority    : {"medium"},
     due_date    : {None, "tomorrow", "Every Morning", "Friday at 5pm"},
     tags        : {"", "every night", "Daily,health"},
     is_daily    : BOOLEAN]

ProbeCreate ==
    /\ now < MaxProbes
    /\ \E inp \in ProbeInputs, newid \in TaskIds :
        Finish("create_task", inp @@ [newid |-> newid],
               create_real_task(task_ops, CurTasks, inp.description,
                                inp.priority, inp.due_date, inp.tags,
                                inp.is_daily, newid, now + 1))

NextCreate == ProbeCreate

SpecCreate == Init /\ [][NextCreate]_vars

(***************************************************************************)
(* Concurrent requests: each runs in an asyncio task with a context of its *)
(* own, sets its TaskOperations (chat endpoint) or not                     *)
(* (TaskManagementAgent.chat), calls tools and clears the binding.  The    *)
(* event loop interleaves the requests at their awaits: every step below   *)
(* is taken by one request, in whose context it runs.                      *)
(***************************************************************************)
\* the authenticated user of each request
ReqUser == [r \in Requests |-> IF r = "r1" THEN "u1" ELSE "u2"]

\* the binding a variable shared by all requests would give: the value of
\* the context that was current before the switch to this request
SharedBinding(ctxs, r, current) == current

\* get_task_operations() called in request r: the value in r's context
get_task_operations(ctxs, r, current) == ctxs[r]

\* the task list the request's TaskOperations works on
ListOf(bound) == IF bound = None THEN <<>> ELSE tasks[bound]

\* the tool called in request r returned
FinishIn(r, op, args, out) ==
    LET bound == get_task_operations(contexts, r, task_ops) IN
    /\ tasks' = IF bound = None THEN tasks ELSE [tasks EXCEPT ![bound] = out.ts]
    /\ now' = now + 1
    /\ history' = Append(history, [op |-> op, args |-> args, res |-> out.res,
                                    before |-> ListOf(bound), after |-> out.ts,
                                    request |-> r, bound |-> bound,
                                    set_for |-> contexts[r], others |-> tasks])
    /\ task_ops' = contexts[r]
    /\ UNCHANGED <<contexts, req_pc, memVars, chatVars, lockVars>>

\* the chat endpoint: TaskOperations(session, current_user.id) and
\* set_task_operations
BeginRequest ==
    \E r \in Requests :
        /\ req_pc[r] = "new"
        /\ contexts' = [contexts EXCEPT ![r] = ReqUser[r]]
        /\ req_pc' = [req_pc EXCEPT ![r] = "running"]
        /\ task_ops' = ReqUser[r]
        /\ UNCHANGED <<tasks, now, history, memVars, chatVars, lockVars>>

\* TaskManagementAgent.chat: the agent runs with no TaskOperations set
BeginUnbound ==
    \E r \in Requests :
        /\ req_pc[r] = "new"
        /\ req_pc' = [req_pc EXCEPT ![r] = "running"]
        /\ task_ops' = contexts[r]
        /\ UNCHANGED <<contexts, tasks, now, history, memVars, chatVars, lockVars>>

\* clear_task_operations in the endpoint's finally
EndRequest ==
    \E r \in Requests :
        /\ req_pc[r] = "running"
        /\ contexts' = [contexts EXCEPT ![r] = None]
        /\ req_pc' = [req_pc EXCEPT ![r] = "done"]
        /\ task_ops' = None
        /\ UNCHANGED <<tasks, now, history, memVars, chatVars, lockVars>>

\* the request can call a tool
CanCall(r) == now < MaxReqCalls /\ req_pc[r] = "running"

\* the arguments the requests' tool calls carry
ReqDescription(r) == "Task of " \o ReqUser[r]
ReqTargets == {"a1b2c3d4", "Task"}

ReqCreate ==
    \E r \in Requests :
        /\ CanCall(r)
        /\ LET bound == get_task_operations(contexts, r, task_ops) IN
           FinishIn(r, "create_task", [description |-> ReqDescription(r)],
                    create_real_task(bound, ListOf(bound), ReqDescription(r),
                                     "medium", None, "", FALSE, "a1b2c3d4", now + 1))

ReqList ==
    \E r \in Requests :
        /\ CanCall(r)
        /\ LET bound == get_task_operations(contexts, r, task_ops) IN
           FinishIn(r, "list_tasks", EmptyDict,
                    list_my_tasks(bound, ListOf(bound), NoBool, None, 20))

ReqComplete ==
    \E r \in Requests :
        /\ CanCall(r)
        /\ LET bound == get_task_operations(contexts, r, task_ops) IN
           FinishIn(r, "complete_task", [task_id |-> "a1b2c3d4"],
                    complete_my_task(bound, ListOf(bound), "a1b2c3d4", now + 1))

ReqUpdate ==
    \E r \in Requests, target \in ReqTargets :
        /\ CanCall(r)
        /\ LET bound == get_task_operations(contexts, r, task_ops) IN
           FinishIn(r, "update_task", [target |-> target],
                    update_my_task(bound, ListOf(bound), target,
                                   "Renamed " \o ReqDescription(r), None, None,
                                   now + 1))

ReqDelete ==
    \E r \in Requests, target \in ReqTargets :
        /\ CanCall(r)
        /\ LET bound == get_task_operations(contexts, r, task_ops) IN
           FinishIn(r, "delete_task", [target |-> target],
                    delete_my_task(bound, ListOf(bound), target))

ReqStats ==
    \E r \in Requests :
        /\ CanCall(r)
        /\ LET bound == get_task_operations(contexts, r, task_ops) IN
           FinishIn(r, "get_stats", EmptyDict,
                    get_my_task_stats(bound, ChatUserHasRow, ListOf(bound)))

InitRequests ==
    /\ sessions = <<>>
    /\ requested = <<>>
    /\ appended = <<>>
    /\ msgSeq = 0
    /\ memRet = NoReturn
    /\ StoreIdle
    /\ ChatIdle
    /\ LocksIdle

NextRequests ==
    \/ BeginRequest
    \/ BeginUnbound
    \/ EndRequest
    \/ ReqCreate
    \/ ReqList
    \/ ReqComplete
    \/ ReqUpdate
    \/ ReqDelete
    \/ ReqStats

SpecRequests == InitRequests /\ [][NextRequests]_vars

(***************************************************************************)
(* create_real_task and update_my_task probed with one field at a time     *)
(* empty, padded, too long, unrecognised or in natural language            *)
(***************************************************************************)
\* the string of n copies of c
RECURSIVE Repeat(_, _)
Repeat(c, n) ==
    IF n = 0 THEN ""
    ELSE IF n % 2 = 1 THEN c \o Repeat(c, n - 1)
    ELSE LET half == Repeat(c, n \div 2) IN half \o half

\* descriptions of 500 characters (padded) and of 501
Description500 == " " \o Repeat("x", MaxDescriptionLen) \o " "
Description501 == Repeat("x", MaxDescriptionLen + 1)

FieldBase ==
    [description |-> " Buy milk ", priority |-> "medium", due_date |-> None,
     tags |-> "", is_daily |-> FALSE]

FieldCreateInputs ==
    {[FieldBase EXCEPT !.description = d] :
        d \in {" Buy milk ", "   ", Description500, Description501}}
    \cup {[FieldBase EXCEPT !.priority = p] : p \in {None, "", "HIGH ", "urgent"}}
    \cup {[FieldBase EXCEPT !.due_date = d] :
        d \in {"Tomorrow", "next friday", "2025-12-31", "2030-01-01"}}

NoUpdate == [description |-> None, priority |-> None, due_date |-> None]

FieldUpdateInputs ==
    {[NoUpdate EXCEPT !.description = d] :
        d \in {" Buy bread ", "   ", Description500, Description501}}
    \cup {[NoUpdate EXCEPT !.priority = p] : p \in {"", " Low", "urgent"}}
    \cup {[NoUpdate EXCEPT !.due_date = d] :
        d \in {"Tomorrow", "next friday", "2025-12-31"}}

\* the id generate_task_id() returns for the next task
NextId == IF CurTasks = <<>> THEN "a1b2c3d4" ELSE "0f9e8d7c"

FieldCreate ==
    /\ now < MaxFieldCalls
    /\ \E inp \in FieldCreateInputs :
        Finish("create_task", inp @@ [newid |-> NextId],
               create_real_task(task_ops, CurTasks, inp.description,
                                inp.priority, inp.due_date, inp.tags,
                                inp.is_daily, NextId, now + 1))

FieldUpdate ==
    /\ now < MaxFieldCalls
    /\ \E inp \in FieldUpdateInputs :
        Finish("update_task", inp @@ [target |-> "a1b2c3d4"],
               update_my_task(task_ops, CurTasks, "a1b2c3d4", inp.description,
                              inp.priority, inp.due_date, now + 1))

NextFields == FieldCreate \/ FieldUpdate

SpecFields == Init /\ [][NextFields]_vars

(***************************************************************************)
(* DateParser.parse applied to phrases, the current date being TodayDate   *)
(***************************************************************************)
PhraseStarts == {"", "due ", "today or ", "every day from ", "Next week, not "}
PhraseCores ==
    {"tomorrow", "Tomorrow", "TOMORROW", "tmrw", "today", "in 2 days",
     "2025-12-31", "2026-01-15", "2030-01-01", "2024-06-01", "2025-02-30",
     "2025-1-5", "2025-12-31T10:30:00", "31-12-2025", "someday", "daily"}
PhraseEnds == {"", " morning", " 9am daily"}

Phrases ==
    {a \o b \o c : a \in PhraseStarts, b \in PhraseCores, c \in PhraseEnds}
        \cup {None, "", "   "}

Classify ==
    /\ Len(history) < MaxProbes
    /\ \E date_str \in Phrases :
          history' = Append(history,
                            [op     |-> "DateParser.parse",
                             args   |-> [date_str |-> date_str],
                             res    |-> [value |-> DateParser_parse(date_str)],
                             before |-> CurTasks,
                             after  |-> CurTasks])
    /\ UNCHANGED <<tasks, now, task_ops, contexts, req_pc, memVars, chatVars, lockVars>>

NextClassify == Classify

SpecClassify == Init /\ [][NextClassify]_vars

(***************************************************************************)
(* Listing: UserDataRepository.get_tasks and TaskOperations.list_tasks     *)
(* applied to stored lists                                                 *)
(***************************************************************************)
\* a stored task created at time t
ListTask(t, description, priority, is_completed, is_daily) ==
    [TaskItem_create("0000" \o Pad4(t), description, priority, None, None, is_daily, t)
        EXCEPT !.is_completed = is_completed]

\* four tasks in the order they were added
SmallList ==
    <<ListTask(1, "Buy milk", "high", FALSE, FALSE),
      ListTask(2, "buy MILK and eggs", "medium", TRUE, FALSE),
      ListTask(3, "Walk dog", "high", FALSE, TRUE),
      ListTask(4, "Milkshake", "high", FALSE, FALSE)>>

\* a list that was sorted by an unfiltered listing before its last task was
\* added
ResortedList ==
    <<SmallList[3], SmallList[2], SmallList[1], SmallList[4]>>

\* one task more than the largest page
BigList ==
    [t \in 1..(MaxPageSize + 1) |->
        ListTask(t, "Task " \o ToString(t), IF t % 2 = 0 THEN "high" ELSE "medium",
                 t % 3 = 0, FALSE)]

ListedTasks == {<<>>, SmallList, ResortedList, BigList}

\* the filters and pages get_tasks is called with
GetTasksInputs ==
    [is_completed : {NoBool, <<TRUE>>, <<FALSE>>},
     priority     : {None, "high"},
     search       : {None, "MILK"},
     is_daily     : {NoBool, <<FALSE>>},
     page         : {[skip |-> 0, limit |-> 100], [skip |-> 1, limit |-> 2],
                     [skip |-> 0, limit |-> 1]}]

\* the arguments list_tasks is called with
ListTasksInputs ==
    [is_completed : {NoBool, <<FALSE>>},
     priority     : {None},
     limit        : {0 - 5, 0, 1, 2, 100, 101, 1000}]

InitList ==
    /\ \E ts \in ListedTasks :
          /\ tasks = [u \in Users |-> IF u = TheUser THEN ts ELSE <<>>]
          /\ now = Len(ts)
    /\ OneRequest(TheUser)
    /\ history = <<>>
    /\ sessions = <<>>
    /\ requested = <<>>
    /\ appended = <<>>
    /\ msgSeq = 0
    /\ memRet = NoReturn
    /\ ChatIdle
    /\ LocksIdle

\* UserDataRepository.get_tasks called on the stored list
RepoGetTasks ==
    /\ Len(history) < MaxListCalls
    /\ \E inp \in GetTasksInputs :
          LET got == get_tasks(CurTasks, inp.page.skip, inp.page.limit,
                               inp.is_completed, inp.priority, inp.search,
                               inp.is_daily)
          IN  /\ tasks' = [tasks EXCEPT ![task_ops] = got.stored]
              /\ history' = Append(history,
                                    [op     |-> "get_tasks",
                                     args   |-> inp,
                                     res    |-> [items |-> got.items, total |-> got.total],
                                     before |-> CurTasks,
                                     after  |-> got.stored])
    /\ UNCHANGED <<now, task_ops, contexts, req_pc, memVars, chatVars, lockVars>>

\* TaskOperations.list_tasks called on the stored list
DispatchList ==
    /\ Len(history) < MaxListCalls
    /\ \E inp \in ListTasksInputs :
          LET out == TO_list_tasks(CurTasks, inp.is_completed, inp.priority, inp.limit)
          IN  /\ tasks' = [tasks EXCEPT ![task_ops] = out.ts]
              /\ history' = Append(history,
                                    [op     |-> "list_tasks",
                                     args   |-> inp,
                                     res    |-> out.res,
                                     before |-> CurTasks,
                                     after  |-> out.ts])
    /\ UNCHANGED <<now, task_ops, contexts, req_pc, memVars, chatVars, lockVars>>

\* GET /tasks, get_tasks of the router: the page of the tasks that pass the
\* filters and the number of pages.  The request saves nothing: the order
\* UserDataRepository.get_tasks gives the list it loaded (loaded) lasts as
\* long as the session of the request and is not stored.
Api_get_tasks(ts, page, page_size, is_completed, priority, search) ==
    LET skip == (page - 1) * page_size
        got == get_tasks(ts, skip, page_size, is_completed, priority, search, NoBool)
        total_pages == IF got.total > 0 THEN (got.total + page_size - 1) \div page_size
                       ELSE 1
    IN  [loaded |-> got.stored] @@
        Returned(ts, FALSE,
            HttpResponse(200, [items       |-> [i \in DOMAIN got.items |->
                                                   task_to_response(got.items[i])],
                               total       |-> got.total,
                               page        |-> page,
                               page_size   |-> page_size,
                               total_pages |-> total_pages]))

\* GET /tasks/daily/all, get_daily_tasks: the first 100 daily tasks
Api_get_daily_tasks(ts) ==
    LET got == get_tasks(ts, 0, 100, NoBool, None, None, <<TRUE>>)
    IN  [loaded |-> got.stored] @@
        Returned(ts, FALSE,
            HttpResponse(200, [i \in DOMAIN got.items |-> task_to_response(got.items[i])]))

\* GET /tasks/{task_id}, get_task of the router
Api_get_task(ts, task_id) ==
    IF UD_get_task(ts, task_id) = 0 THEN Returned(ts, FALSE, HttpNotFound)
    ELSE Returned(ts, FALSE, HttpResponse(200, task_to_response(ts[UD_get_task(ts, task_id)])))

NextList ==
    \/ RepoGetTasks
    \/ DispatchList

SpecList == InitList /\ [][NextList]_vars

(***************************************************************************)
(* Statistics: TaskOperations.get_stats applied to stored lists, the       *)
(* current time being NowTime on TodayDate                                 *)
(***************************************************************************)
DueYesterday == "2025-12-29"
DueToday == FormatDate(TodayDate)
DueTonight == FormatDate(TodayDate) \o "T10:30:00"
DueIn3Days == FormatDate(AddDays(TodayDate, 3))
DueIn7Days == FormatDate(AddDays(TodayDate, 7))
DueIn8Days == FormatDate(AddDays(TodayDate, 8))
\* tomorrow at 10:30, written without seconds
DueTomorrowMorning == FormatDate(AddDays(TodayDate, 1)) \o "T10:30"
\* yesterday at 10:30 in a zone 5 hours ahead of UTC
DueYesterdayAhead == DueYesterday \o "T10:30:00+05:00"
\* today at 13:00 in a zone 5 hours ahead of UTC: 08:00 UTC, before NowTime
DueEarlierAhead == FormatDate(TodayDate) \o "T13:00:00+05:00"
\* today at 10:00 in a zone 5 hours ahead of UTC: 05:00 UTC, before NowTime;
\* "Z" separates the date from the time
DueEarlierZ == FormatDate(TodayDate) \o "Z10:00:00+05:00"
\* tomorrow at 10:30 UTC
DueTomorrowUtc == FormatDate(AddDays(TodayDate, 1)) \o "T10:30:00Z"

\* the tasks the lists are made of: priority, completion, recurrence and the
\* due date as create_task or update_task stored it
StatKinds ==
    {[priority |-> "medium", is_completed |-> TRUE, is_daily |-> FALSE, due_date |-> DueYesterday],
     [priority |-> "high", is_completed |-> FALSE, is_daily |-> FALSE, due_date |-> DueYesterday],
     [priority |-> "medium", is_completed |-> FALSE, is_daily |-> FALSE, due_date |-> DueIn3Days],
     [priority |-> "medium", is_completed |-> FALSE, is_daily |-> TRUE, due_date |-> None],
     [priority |-> "high", is_completed |-> FALSE, is_daily |-> FALSE, due_date |-> "Tomorrow"],
     [priority |-> "low", is_completed |-> FALSE, is_daily |-> FALSE, due_date |-> "2025-1-5"],
     [priority |-> "low", is_completed |-> FALSE, is_daily |-> FALSE, due_date |-> DueToday],
     [priority |-> "medium", is_completed |-> FALSE, is_daily |-> FALSE, due_date |-> DueTonight],
     [priority |-> "medium", is_completed |-> FALSE, is_daily |-> FALSE, due_date |-> DueIn7Days],
     [priority |-> "high", is_completed |-> TRUE, is_daily |-> FALSE, due_date |-> DueIn8Days],
     [priority |-> "medium", is_completed |-> FALSE, is_daily |-> FALSE, due_date |-> DueIn8Days],
     [priority |-> "low", is_completed |-> FALSE, is_daily |-> FALSE, due_date |-> DueTomorrowMorning],
     [priority |-> "low", is_completed |-> FALSE, is_daily |-> FALSE, due_date |-> DueYesterdayAhead],
     [priority |-> "low", is_completed |-> FALSE, is_daily |-> FALSE, due_date |-> DueEarlierAhead],
     [priority |-> "low", is_completed |-> FALSE, is_daily |-> FALSE, due_date |-> DueEarlierZ],
     [priority |-> "low", is_completed |-> FALSE, is_daily |-> FALSE, due_date |-> DueTomorrowUtc]}

\* the stored list of these kinds, created one after the other
StatTasks(kinds) ==
    [i \in 1..Len(kinds) |->
        [TaskItem_create("0000" \o Pad4(i), "Task " \o ToString(i), kinds[i].priority,
                         None, kinds[i].due_date, kinds[i].is_daily, i)
            EXCEPT !.is_completed = kinds[i].is_completed]]

\* one completed task, one pending high-priority task due yesterday, one
\* pending task due in 3 days, one pending daily task without a due date
ExampleKinds ==
    <<[priority |-> "medium", is_completed |-> TRUE, is_daily |-> FALSE, due_date |-> DueYesterday],
      [priority |-> "high", is_completed |-> FALSE, is_daily |-> FALSE, due_date |-> DueYesterday],
      [priority |-> "medium", is_completed |-> FALSE, is_daily |-> FALSE, due_date |-> DueIn3Days],
      [priority |-> "medium", is_completed |-> FALSE, is_daily |-> TRUE, due_date |-> None]>>

InitStats ==
    /\ \E kinds \in {ExampleKinds} \cup UNION {[1..n -> StatKinds] : n \in 0..MaxStatTasks} :
          /\ tasks = [u \in Users |-> IF u = TheUser THEN StatTasks(kinds) ELSE <<>>]
          /\ now = Len(kinds)
    /\ OneRequest(TheUser)
    /\ history = <<>>
    /\ sessions = <<>>
    /\ requested = <<>>
    /\ appended = <<>>
    /\ msgSeq = 0
    /\ memRet = NoReturn
    /\ ChatIdle
    /\ LocksIdle

\* TaskOperations.get_stats called on the stored list
StatsOfList ==
    /\ Len(history) < MaxProbes
    /\ \E row \in BOOLEAN :
          /\ ~row => CurTasks = <<>>
          /\ LET out == TO_get_stats(row, CurTasks)
             IN  /\ tasks' = [tasks EXCEPT ![task_ops] = out.ts]
                 /\ history' = Append(history,
                                 [op     |-> "get_stats",
                                  args   |-> [row |-> row],
                                  res    |-> out.res,
                                  before |-> CurTasks,
                                  after  |-> out.ts])
    /\ UNCHANGED <<now, task_ops, contexts, req_pc, memVars, chatVars, lockVars>>

NextStats == StatsOfList

SpecStats == InitStats /\ [][NextStats]_vars

(***************************************************************************)
(* Concurrent requests of one user.  Each request has a database session   *)
(* of its own: get_by_user_id gives the UserData object the session loaded *)
(* (at the start of the request, and again by the refresh after each of    *)
(* its commits), the tools change that object's task list, and save writes *)
(* the whole list back (flag_modified, commit, refresh).  A chat request   *)
(* (RaceBegin .. RaceEnd) calls its tools while it awaits Runner.run; a     *)
(* request of the REST API has no await: it loads the stored row, answers   *)
(* and saves in one step, on a session that ends with it.                   *)
(***************************************************************************)
\* the row of TheUser when the requests start: one task
RaceStored == StoredTasks(<<"Buy milk">>)

\* the list request k mutates when its session reads the row anew before
\* every call
FreshRow(k) == tasks[TheUser]

\* the list request k mutates: the tasks attribute of the object its session
\* holds
RowOf(k) == coroutines[k].row

InitRace ==
    /\ tasks = [u \in Users |-> IF u = TheUser THEN RaceStored ELSE <<>>]
    /\ now = Len(RaceStored)
    /\ task_ops = None
    /\ NoRequests
    /\ history = <<>>
    /\ sessions = <<>>
    /\ requested = <<>>
    /\ appended = <<>>
    /\ msgSeq = 0
    /\ memRet = NoReturn
    /\ ChatIdle
    /\ LocksIdle

\* the chat endpoint starts: get_api_keys loads the row, add_chat_message
\* saves it with the user message
RaceBegin ==
    /\ Len(coroutines) < Cardinality(Requests)
    /\ coroutines' = Append(coroutines,
                            [op |-> "request", user_id |-> TheUser, pc |-> "running",
                             row |-> tasks[TheUser], synced |-> Len(history)])
    /\ UNCHANGED <<memVars, locks, storeVars, chatVars>>

\* a tool called in request k returned: when it saved, the row is the list
\* of the request and the session holds what it wrote
RaceFinish(k, op, args, out) ==
    /\ tasks' = IF out.wrote THEN [tasks EXCEPT ![TheUser] = out.ts] ELSE tasks
    /\ now' = now + 1
    /\ history' = Append(history, [op |-> op, args |-> args, res |-> out.res,
                                    before |-> RowOf(k), after |-> out.ts,
                                    request |-> k, wrote |-> out.wrote,
                                    synced |-> coroutines[k].synced])
    /\ coroutines' = [coroutines EXCEPT
                         ![k].row = out.ts,
                         ![k].synced = IF out.wrote THEN Len(history) + 1 ELSE @]
    /\ UNCHANGED <<task_ops, contexts, req_pc, memVars, locks, chatVars>>

RaceCanCall(k) ==
    /\ coroutines[k].op = "request" /\ coroutines[k].pc = "running"
    /\ now < Len(RaceStored) + MaxRaceCalls

RaceCreate ==
    \E k \in DOMAIN coroutines, newid \in TaskIds :
        /\ RaceCanCall(k)
        /\ RaceFinish(k, "create_task", [newid |-> newid],
                      create_real_task(TheUser, RowOf(k), "Task of r" \o ToString(k),
                                       None, None, None, FALSE, newid, now + 1))

RaceComplete ==
    \E k \in DOMAIN coroutines :
        /\ RaceCanCall(k)
        /\ RaceFinish(k, "complete_task", [task_id |-> RaceStored[1].id],
                      complete_my_task(TheUser, RowOf(k), RaceStored[1].id, now + 1))

RaceDelete ==
    \E k \in DOMAIN coroutines, target \in {RaceStored[1].id, "Task of"} :
        /\ RaceCanCall(k)
        /\ RaceFinish(k, "delete_task", [target |-> target],
                      delete_my_task(TheUser, RowOf(k), target))

\* the chat endpoint ends: add_chat_message saves the row with the assistant
\* message, the task list of the session's object included
RaceEnd ==
    \E k \in DOMAIN coroutines :
        /\ coroutines[k].op = "request" /\ coroutines[k].pc = "running"
        /\ tasks' = [tasks EXCEPT ![TheUser] = RowOf(k)]
        /\ history' = Append(history, [op |-> "add_chat_message", args |-> EmptyDict,
                                        res |-> EmptyDict,
                                        before |-> RowOf(k), after |-> RowOf(k),
                                        request |-> k, wrote |-> TRUE,
                                        synced |-> coroutines[k].synced])
        /\ coroutines' = [coroutines EXCEPT ![k].pc = "done",
                                            ![k].synced = Len(history) + 1]
        /\ UNCHANGED <<now, task_ops, contexts, req_pc, memVars, locks, chatVars>>

\* list_my_tasks called in request k: it lists the tasks of the object the
\* session of the request holds
RaceList ==
    \E k \in DOMAIN coroutines :
        /\ RaceCanCall(k)
        /\ RaceFinish(k, "list_tasks", EmptyDict,
                      list_my_tasks(TheUser, RowOf(k), NoBool, None, 20))

\* the body of POST /tasks
PostBodies ==
    {[description |-> " Buy milk ", priority |-> "high", tags |-> " shopping ",
      due_date |-> <<BodyDueDate>>, is_daily |-> FALSE]}

\* the body of PUT /tasks/{task_id}: every field
PutBodies ==
    {[description |-> " Call mom ", priority |-> "low", tags |-> <<"home", "urgent">>,
      due_date |-> BodyDueDate, is_daily |-> TRUE, is_completed |-> TRUE]}

\* the body of PATCH /tasks/{task_id}: some fields
PatchBodies ==
    {[is_completed |-> FALSE, tags |-> <<>>],
     [tags |-> <<"x", "y">>, is_daily |-> TRUE]}

\* the query parameters GET /tasks is called with
PageQueries ==
    [page : {1, 2}, page_size : {1}, is_completed : {NoBool},
     priority : {None, "high"}, search : {None}]

\* the task ids in the paths of the routes
PathIds == {RaceStored[1].id, "zzz"}

\* a route answered on the session of its request: it loaded the stored
\* row, and what it saved is the stored row afterwards.  In the history it
\* is a call of request 0 that had read every commit before it
Answer(op, args, out) ==
    /\ tasks' = [tasks EXCEPT ![TheUser] = out.ts]
    /\ now' = now + 1
    /\ history' = Append(history, [op |-> op, args |-> args, res |-> out.res,
                                    before |-> tasks[TheUser], after |-> out.ts,
                                    request |-> 0, wrote |-> out.wrote,
                                    synced |-> Len(history)])
    /\ UNCHANGED <<task_ops, contexts, req_pc, memVars, chatVars, lockVars>>

\* a route may be called
RouteCanCall == now < Len(RaceStored) + MaxRaceCalls

PostTask ==
    /\ RouteCanCall
    /\ \E task_data \in PostBodies, newid \in TaskIds :
          Answer("POST /tasks", task_data @@ [newid |-> newid],
                 Api_create_task(tasks[TheUser], task_data, newid, now + 1))

PutTask ==
    /\ RouteCanCall
    /\ \E task_data \in PutBodies, task_id \in PathIds :
          Answer("PUT /tasks/{task_id}", [task_id |-> task_id, body |-> task_data],
                 Api_update_task(tasks[TheUser], task_id, task_data, now + 1))

PatchTask ==
    /\ RouteCanCall
    /\ \E task_data \in PatchBodies, task_id \in PathIds :
          Answer("PATCH /tasks/{task_id}", [task_id |-> task_id, body |-> task_data],
                 Api_partial_update_task(tasks[TheUser], task_id, task_data, now + 1))

PatchTaskComplete ==
    /\ RouteCanCall
    /\ \E task_id \in PathIds :
          Answer("PATCH /tasks/{task_id}/complete", [task_id |-> task_id],
                 Api_complete_task(tasks[TheUser], task_id, now + 1))

DeleteTaskById ==
    /\ RouteCanCall
    /\ \E task_id \in PathIds :
          Answer("DELETE /tasks/{task_id}", [task_id |-> task_id],
                 Api_delete_task(tasks[TheUser], task_id))

GetTasksPage ==
    /\ RouteCanCall
    /\ \E q \in PageQueries :
          Answer("GET /tasks", q,
                 Api_get_tasks(tasks[TheUser], q.page, q.page_size, q.is_completed,
                               q.priority, q.search))

GetDailyTasks ==
    /\ RouteCanCall
    /\ Answer("GET /tasks/daily/all", EmptyDict, Api_get_daily_tasks(tasks[TheUser]))

GetTaskById ==
    /\ RouteCanCall
    /\ \E task_id \in PathIds :
          Answer("GET /tasks/{task_id}", [task_id |-> task_id],
                 Api_get_task(tasks[TheUser], task_id))

NextRace ==
    \/ RaceBegin
    \/ RaceCreate
    \/ RaceComplete
    \/ RaceDelete
    \/ RaceList
    \/ RaceEnd
    \/ PostTask
    \/ PutTask
    \/ PatchTask
    \/ PatchTaskComplete
    \/ DeleteTaskById
    \/ GetTasksPage
    \/ GetDailyTasks
    \/ GetTaskById

SpecRace == InitRace /\ [][NextRace]_vars

(***************************************************************************)
(* Chat turns: run_agent_with_session (task_management_agent.py)           *)
(***************************************************************************)
\* get_session_store: the global store after the call, built with the
\* max_messages of the call when there was none
get_session_store(global, max_messages) ==
    IF global = <<>> THEN <<max_messages>> ELSE global

\* SessionStore.get_or_create_session: the sessions of the store afterwards.
\* max_messages 0 is falsy, as None is, and gives the store's default
get_or_create_session(store, default_max_messages, session_id, max_messages) ==
    IF session_id \in DOMAIN store THEN store
    ELSE LET msg_limit == IF max_messages # 0 THEN max_messages
                          ELSE default_max_messages
         IN  store @@ (session_id :> SessionManager(session_id, msg_limit))

\* create_user_session: the sessions of the global store afterwards
create_user_session(store, global, user_id, max_messages) ==
    get_or_create_session(store, get_session_store(global, max_messages)[1],
                          user_id, max_messages)

\* add_user_message: the sessions of the global store afterwards
add_user_message(store, global, user_id, content) ==
    LET st == create_user_session(store, global, user_id, DefaultMaxMessages)
    IN  [st EXCEPT ![user_id] = SM_add_message(@, "user", content)]

\* add_assistant_message: the sessions of the global store afterwards
add_assistant_message(store, global, user_id, content) ==
    LET st == create_user_session(store, global, user_id, DefaultMaxMessages)
    IN  [st EXCEPT ![user_id] = SM_add_message(@, "assistant", content)]

\* get_user_conversation(include_system=False)
get_user_conversation(store, global, user_id) ==
    SM_get_messages(create_user_session(store, global, user_id, DefaultMaxMessages)[user_id])

\* the input argument run_agent_with_session gives Runner.run
RunnerInput(message, conversation) == [kind |-> "str", value |-> message]

\* the history variables after a message was appended to user_id's session
Appended(hist, user_id, role, content) ==
    IF user_id \in DOMAIN hist
    THEN [hist EXCEPT ![user_id] = Append(@, SessionMessage(role, content))]
    ELSE hist @@ (user_id :> <<SessionMessage(role, content)>>)

\* the first argument when it is truthy, else the second (Python's `or`)
Or(a, b) == IF Truthy(a) THEN a ELSE b

\* a RunConfig: the model it names and the key its client sends
RunConfig(provider, model, api_key) ==
    [kind |-> "config", provider |-> provider, model |-> model, api_key |-> api_key]

\* no RunConfig (config is None)
NoConfig == [kind |-> "none"]

\* get_gemini_config: the RunConfig, or the ValueError it raises
get_gemini_config(api_key, env) ==
    LET gemini_api_key == Or(api_key, env.GEMINI_API_KEY) IN
    IF ~Truthy(gemini_api_key)
    THEN Raised("ValueError", "No Gemini API key available. Please configure your API key in settings.")
    ELSE IF ~StartsWith(gemini_api_key, "AIza")
    THEN Raised("ValueError", "Invalid Gemini API key format. Gemini keys start with 'AIza'.")
    ELSE RunConfig("gemini", "gemini-2.5-flash", gemini_api_key)

\* get_openai_config: the RunConfig, or the ValueError it raises
get_openai_config(api_key, env) ==
    LET openai_api_key == Or(api_key, env.OPENAI_API_KEY) IN
    IF ~Truthy(openai_api_key)
    THEN Raised("ValueError", "No OpenAI API key available. Please configure your API key in settings.")
    ELSE IF StartsWith(openai_api_key, "AIza")
    THEN Raised("ValueError", "Invalid API key: This appears to be a Gemini API key, not an OpenAI key. Please use your OpenAI API key (starts with 'sk-').")
    ELSE RunConfig("openai", "gpt-4o-mini", openai_api_key)

\* the first try block of run_agent_with_session: the RunConfig it ends
\* with, NoConfig when it returns the no-key JSON
ResolveConfig(gemini_api_key, openai_api_key, env) ==
    LET valid_gemini_key ==
            IF Truthy(gemini_api_key) /\ Truthy(Strip(gemini_api_key))
                  /\ StartsWith(Strip(gemini_api_key), "AIza")
            THEN Strip(gemini_api_key) ELSE None
        key == IF Truthy(openai_api_key) THEN Strip(openai_api_key) ELSE None
        valid_openai_key ==
            IF Truthy(key) /\ StartsWith(key, "sk-") /\ ~StartsWith(key, "AIza")
            THEN key ELSE None
        c1 == IF Truthy(valid_gemini_key)
              THEN get_gemini_config(valid_gemini_key, env) ELSE NoConfig
        config1 == IF IsRaised(c1) THEN NoConfig ELSE c1
        c2 == IF config1 = NoConfig /\ Truthy(valid_openai_key)
              THEN get_openai_config(valid_openai_key, env) ELSE config1
        config2 == IF IsRaised(c2) THEN NoConfig ELSE c2
        envGemini == get_gemini_config(None, env)
        envOpenAI == get_openai_config(None, env)
    IN  IF config2 # NoConfig THEN config2
        ELSE IF ~IsRaised(envGemini) THEN envGemini
        ELSE IF ~IsRaised(envOpenAI) THEN envOpenAI
        ELSE NoConfig

\* json.dumps of the dict returned when no key is usable
NoKeyJson ==
    "{\"error\": true, \"message\": \"No valid API key found.\\n\\nPlease add your API key in Settings:\\n- Gemini API: https://aistudio.google.com/apikey\\n- OpenAI API: https://platform.openai.com/api-keys\"}"

MsgSuspended ==
    "Your API key appears to be suspended or invalid. This can happen if:\n- Your API quota has been exceeded\n- Your billing information needs updating\n- The key has been revoked\n\nPlease update your API key in Settings."
MsgInvalidKey ==
    "Your API key appears to be invalid. Please verify your API key in Settings."
MsgThrottled ==
    "You've exceeded your API usage limit. Please wait a moment and try again, or upgrade your API plan."
MsgKeyConfig ==
    "There's an issue with your API key configuration. Please check your Settings."
MsgTimeout ==
    "The request took too long to complete. Please try again."
MsgConnectivity ==
    "Unable to connect to the AI service. Please check your internet connection and try again."
MsgGeneric ==
    "Something went wrong. Please try again. If the problem persists, contact support."

\* the classification with the substrings 'invalid', 'api key', 'api_key' and
\* 'timed out' left out
UserMessageShortRules(text) ==
    LET error_str == Lower(text) IN
    IF Contains(error_str, "403") \/ Contains(error_str, "permission denied")
          \/ Contains(error_str, "suspended")
    THEN MsgSuspended
    ELSE IF Contains(error_str, "401") \/ Contains(error_str, "unauthorized")
    THEN MsgInvalidKey
    ELSE IF Contains(error_str, "429") \/ Contains(error_str, "rate limit")
          \/ Contains(error_str, "quota")
    THEN MsgThrottled
    ELSE IF Contains(error_str, "timeout")
    THEN MsgTimeout
    ELSE IF Contains(error_str, "network") \/ Contains(error_str, "connection")
    THEN MsgConnectivity
    ELSE MsgGeneric

\* the user_message the second except block of run_agent_with_session
\* picks for the exception text
UserMessageFor(text) ==
    LET error_str == Lower(text) IN
    IF Contains(error_str, "403") \/ Contains(error_str, "permission denied")
          \/ Contains(error_str, "suspended")
    THEN MsgSuspended
    ELSE IF Contains(error_str, "401") \/ Contains(error_str, "unauthorized")
          \/ Contains(error_str, "invalid")
    THEN MsgInvalidKey
    ELSE IF Contains(error_str, "429") \/ Contains(error_str, "rate limit")
          \/ Contains(error_str, "quota")
    THEN MsgThrottled
    ELSE IF Contains(error_str, "api key") \/ Contains(error_str, "api_key")
    THEN MsgKeyConfig
    ELSE IF Contains(error_str, "timeout") \/ Contains(error_str, "timed out")
    THEN MsgTimeout
    ELSE IF Contains(error_str, "network") \/ Contains(error_str, "connection")
    THEN MsgConnectivity
    ELSE MsgGeneric

\* what Runner.run ends with: result.final_output, or an exception with its text
FinalOutput == [kind |-> "final_output"]
Exception(text) == [kind |-> "exception", text |-> text]

\* the message of the k-th call and the final output the model gives for it
TurnMessage(k) == "m" \o ToString(k)
TurnResponse(k) == "re: " \o TurnMessage(k)

\* the coroutine k moved to pc, with the fields in changes replaced
Moved(k, pc, changes) ==
    coroutines' = [coroutines EXCEPT ![k] = DictUpdate(@, changes @@ [pc |-> pc])]

\* the history variable requested after user_id's session was asked for with
\* max_messages 10
Requested10(user_id) ==
    IF user_id \in DOMAIN requested THEN requested
    ELSE requested @@ (user_id :> 10)

\* run_agent_with_session from the call to the await of Runner.run, the one
\* await at which the call is suspended (the locks the session calls take are
\* free, so awaiting them does not yield): the configuration is resolved,
\* and without a usable key the call returns the no-key JSON at once; else
\* the user message is added to the session, the conversation is read and
\* Runner.run is called
TurnBegin(user_id, message, gemini_api_key, openai_api_key) ==
    LET config == ResolveConfig(gemini_api_key, openai_api_key, environ)
        args == [user_id |-> user_id, message |-> message,
                 gemini_api_key |-> gemini_api_key,
                 openai_api_key |-> openai_api_key]
        call == [op |-> "chat", user_id |-> user_id, message |-> message,
                 args |-> args, config |-> config, outcome |-> [kind |-> "none"]]
    IN  IF config = NoConfig
        THEN /\ coroutines' = Append(coroutines,
                    call @@ [pc |-> "done",
                             ret |-> [kind |-> "returned", value |-> NoKeyJson]])
             /\ chatRet' = [kind |-> "returned", value |-> NoKeyJson,
                            args |-> args, config |-> config,
                            outcome |-> [kind |-> "none"]]
             /\ UNCHANGED <<memVars, llm_calls, environ, ai_chats, session_store>>
        ELSE
        LET global == get_session_store(session_store, 10)
            s1 == create_user_session(sessions, session_store, user_id, 10)
            s2 == add_user_message(s1, global, user_id, message)
            conversation == get_user_conversation(s2, global, user_id)
        IN  /\ coroutines' = Append(coroutines,
                    call @@ [pc |-> "awaiting", ret |-> [kind |-> "none"]])
            /\ sessions' = s2
            /\ session_store' = global
            /\ requested' = Requested10(user_id)
            /\ appended' = Appended(appended, user_id, "user", message)
            /\ msgSeq' = msgSeq + 1
            /\ llm_calls' = Append(llm_calls,
                                [user_id      |-> user_id,
                                 message      |-> message,
                                 input        |-> RunnerInput(message, conversation),
                                 run_config   |-> config,
                                 conversation |-> conversation])
            /\ UNCHANGED <<memRet, chatRet, environ, ai_chats>>

\* the resumption with an exception whose user message is stored as the
\* assistant turn
TurnEndKeepsError(k, outcome) ==
    LET c == coroutines[k]
        response == IF outcome = FinalOutput THEN "re: " \o c.message
                    ELSE UserMessageFor(outcome.text)
    IN  /\ c.op = "chat" /\ c.pc = "awaiting"
        /\ sessions' = add_assistant_message(sessions, session_store, c.user_id, response)
        /\ requested' = Requested10(c.user_id)
        /\ appended' = Appended(appended, c.user_id, "assistant", response)
        /\ msgSeq' = msgSeq + 1
        /\ Moved(k, "done",
                 [outcome |-> outcome,
                  ret |-> [kind |-> IF outcome = FinalOutput THEN "returned" ELSE "raised",
                           value |-> response]])
        /\ chatRet' = [kind |-> IF outcome = FinalOutput THEN "returned" ELSE "raised",
                       value |-> response, args |-> c.args, config |-> c.config,
                       outcome |-> outcome]
        /\ UNCHANGED <<memRet, llm_calls, environ, ai_chats, session_store>>

\* run_agent_with_session resumed when Runner.run ends: with
\* result.final_output the response is added to the session as the assistant
\* message and returned; an exception is turned by the except clause into
\* ValueError(user_message)
TurnEnd(k, outcome) ==
    LET c == coroutines[k]
        response == "re: " \o c.message
    IN  /\ c.op = "chat" /\ c.pc = "awaiting"
        /\ IF outcome = FinalOutput
           THEN /\ sessions' = add_assistant_message(sessions, session_store,
                                                     c.user_id, response)
                /\ requested' = Requested10(c.user_id)
                /\ appended' = Appended(appended, c.user_id, "assistant", response)
                /\ msgSeq' = msgSeq + 1
                /\ Moved(k, "done",
                         [outcome |-> outcome,
                          ret |-> [kind |-> "returned", value |-> response]])
                /\ chatRet' = [kind |-> "returned", value |-> response,
                               args |-> c.args, config |-> c.config,
                               outcome |-> outcome]
                /\ UNCHANGED memRet
           ELSE /\ Moved(k, "done",
                         [outcome |-> outcome,
                          ret |-> [kind |-> "raised",
                                   value |-> UserMessageFor(outcome.text)]])
                /\ chatRet' = [kind |-> "raised",
                               value |-> UserMessageFor(outcome.text),
                               args |-> c.args, config |-> c.config,
                               outcome |-> outcome]
                /\ UNCHANGED memVars
        /\ UNCHANGED <<llm_calls, environ, ai_chats, session_store>>

\* the keys a chat request of the running application carries
ChatGeminiKeys == {None, "AIzaUserGem"}

\* what Runner.run ends with in the chat turns
RunOutcomes == {FinalOutput, Exception("Connection error.")}

(***************************************************************************)
(* Chat turns of the users.  Each call is a coroutine on the one event     *)
(* loop: while it awaits Runner.run, other calls start and end.            *)
(***************************************************************************)
\* run_agent_with_session is called and runs to the await of Runner.run
run_agent_with_session ==
    /\ Len(coroutines) < MaxTurns
    /\ \E user_id \in Users, gemini_api_key \in ChatGeminiKeys :
          TurnBegin(user_id, TurnMessage(Len(coroutines) + 1), gemini_api_key, None)
    /\ UNCHANGED <<storeVars, locks>>

\* Runner.run of a suspended call ends and the call runs to its end
ResumeTurn ==
    /\ coroutines # <<>>
    /\ \E k \in DOMAIN coroutines, outcome \in RunOutcomes : TurnEnd(k, outcome)
    /\ UNCHANGED <<storeVars, locks>>

InitChat ==
    /\ sessions = <<>>
    /\ requested = <<>>
    /\ appended = <<>>
    /\ msgSeq = 0
    /\ memRet = NoReturn
    /\ StoreIdle
    /\ ChatIdle
    /\ LocksIdle

NextChat ==
    \/ run_agent_with_session
    \/ ResumeTurn

SpecChat == InitChat /\ [][NextChat]_vars

(***************************************************************************)
(* run_agent_with_session probed with every combination of keys and with   *)
(* the texts of the exceptions Runner.run raises                           *)
(***************************************************************************)
UserGeminiKeys == {None, " AIzaUserGem ", "bogus"}
UserOpenAIKeys == {None, "sk-UserOai", "AIzaWrong"}
EnvGeminiKeys == {None, "AIzaEnvGem", "gem-raw"}
EnvOpenAIKeys == {None, "sk-EnvOai", "oai-raw"}

\* str(e) of the exceptions Runner.run raises
ErrorTexts ==
    {"Error code: 403 - Permission denied", "Error code: 401 - Unauthorized",
     "Error code: 429 - Rate limit reached", "Request timeout",
     "Request timed out.", "Connection error.",
     "Invalid response: gateway timeout", "API key check: timeout",
     "Max turns (10) exceeded"}

\* what Runner.run ends with in the probes
ProbeOutcomes == {FinalOutput} \cup {Exception(text) : text \in ErrorTexts}

\* run_agent_with_session is called with a pair of user keys
ProbeTurn ==
    /\ Len(coroutines) < MaxProbes
    /\ \E gemini_api_key \in UserGeminiKeys, openai_api_key \in UserOpenAIKeys :
          TurnBegin(TheUser, "hello", gemini_api_key, openai_api_key)
    /\ UNCHANGED <<storeVars, locks>>

\* Runner.run of a probe ends
ProbeEnd ==
    /\ coroutines # <<>>
    /\ \E k \in DOMAIN coroutines, outcome \in ProbeOutcomes : TurnEnd(k, outcome)
    /\ UNCHANGED <<storeVars, locks>>

InitTurn ==
    /\ sessions = <<>>
    /\ requested = <<>>
    /\ appended = <<>>
    /\ msgSeq = 0
    /\ memRet = NoReturn
    /\ StoreIdle
    /\ llm_calls = <<>>
    /\ chatRet = [kind |-> "none"]
    /\ \E g \in EnvGeminiKeys, o \in EnvOpenAIKeys :
          environ = [GEMINI_API_KEY |-> g, OPENAI_API_KEY |-> o]
    /\ ai_chats = [u \in Users |-> <<>>]
    /\ session_store = <<>>
    /\ LocksIdle

NextTurn ==
    \/ ProbeTurn
    \/ ProbeEnd

SpecTurn == InitTurn /\ [][NextTurn]_vars

(***************************************************************************)
(* Concurrent calls on the SessionStore, and on the SessionManagers it     *)
(* holds.  A call waits for the lock of its object; its body has no await, *)
(* so it runs as one step under the lock.                                  *)
(* Every SessionManager built carries the number of its construction as    *)
(* its identity.                                                           *)
(***************************************************************************)
\* SessionManager.update_system_message, the body under self._lock
SM_update_system_message(sm, system_message) ==
    [sm EXCEPT !.system_message = system_message]

\* the SessionManager the store builds: the n-th object constructed
BuiltSession(session_id, max_messages, system_message, n) ==
    SessionManager(session_id, max_messages)
        @@ [system_message |-> system_message, instance |-> n]

\* get_or_create_session that builds a SessionManager at every call
ReplaceSession(store, session_id, system_message, max_messages, n) ==
    LET msg_limit == IF max_messages # 0 THEN max_messages ELSE DefaultMaxMessages
        built == BuiltSession(session_id, msg_limit, system_message, n)
    IN  [sid \in DOMAIN store \cup {session_id} |->
            IF sid = session_id THEN built ELSE store[sid]]

\* SessionStore.get_or_create_session, the body under the lock: the store
\* afterwards (max_messages 0 stands for None)
SessionStore_get_or_create_session(store, session_id, system_message, max_messages, n) ==
    IF session_id \notin DOMAIN store
    THEN LET msg_limit == IF max_messages # 0 THEN max_messages ELSE DefaultMaxMessages
         IN  store @@ (session_id :> BuiltSession(session_id, msg_limit, system_message, n))
    ELSE store

\* SessionStore.delete_session, the body under the lock: the store afterwards
SessionStore_delete_session(store, session_id) ==
    [sid \in DOMAIN store \ {session_id} |-> store[sid]]

\* the calls awaited
StoreCalls ==
    [op : {"get_or_create_session"}, session_id : Users,
     args : {[system_message |-> "Be brief", max_messages |-> 5],
             [system_message |-> None, max_messages |-> 0]}]
    \cup [op : {"get_session", "delete_session"}, session_id : Users, args : {EmptyDict}]
    \cup [op : {"clear_all_sessions"}, session_id : {None}, args : {EmptyDict}]
    \cup [op : {"update_system_message"}, session_id : Users,
          args : {[system_message |-> "Be kind"]}]

\* the number of SessionManagers built so far
BuiltSoFar == Cardinality({i \in 1..Len(history) : history[i].created})

\* a call is made: the coroutine waits for the store's lock
StoreCall ==
    /\ Len(coroutines) < MaxStoreCalls
    /\ \E call \in StoreCalls :
          coroutines' = Append(coroutines, call @@ [pc |-> "waiting"])
    /\ UNCHANGED <<memVars, locks, storeVars, chatVars>>

\* the body of call k ran under the lock and the call returned
StoreReturn(k, store, instance, created, removed) ==
    /\ sessions' = store
    /\ coroutines' = [coroutines EXCEPT ![k].pc = "done"]
    /\ history' = Append(history,
                          [op |-> coroutines[k].op, call |-> k,
                           session_id |-> coroutines[k].session_id,
                           args |-> coroutines[k].args,
                           instance |-> instance, created |-> created,
                           removed |-> removed,
                           before |-> sessions, after |-> store])
    /\ UNCHANGED <<requested, appended, msgSeq, memRet, locks, tasks, now, task_ops,
                   contexts, req_pc, chatVars>>

StoreWaiting(k, op) == coroutines[k].op = op /\ coroutines[k].pc = "waiting"

RunGetOrCreate ==
    \E k \in DOMAIN coroutines :
        LET c == coroutines[k]
            store == SessionStore_get_or_create_session(sessions, c.session_id,
                         c.args.system_message, c.args.max_messages, BuiltSoFar + 1)
        IN  /\ StoreWaiting(k, "get_or_create_session")
            /\ StoreReturn(k, store, store[c.session_id].instance,
                           c.session_id \notin DOMAIN sessions
                              \/ sessions[c.session_id] # store[c.session_id],
                           {})

\* SessionStore.get_session: instance 0 stands for None
RunGetSession ==
    \E k \in DOMAIN coroutines :
        LET c == coroutines[k] IN
        /\ StoreWaiting(k, "get_session")
        /\ StoreReturn(k, sessions,
                       IF c.session_id \in DOMAIN sessions
                       THEN sessions[c.session_id].instance ELSE 0,
                       FALSE, {})

RunDeleteSession ==
    \E k \in DOMAIN coroutines :
        LET c == coroutines[k] IN
        /\ StoreWaiting(k, "delete_session")
        /\ StoreReturn(k, SessionStore_delete_session(sessions, c.session_id), 0, FALSE,
                       DOMAIN sessions \cap {c.session_id})

RunClearAll ==
    \E k \in DOMAIN coroutines :
        /\ StoreWaiting(k, "clear_all_sessions")
        /\ StoreReturn(k, <<>>, 0, FALSE, DOMAIN sessions)

\* SessionManager.update_system_message awaited by a caller that got the
\* SessionManager of the session from the store: the lock of the
\* SessionManager is free and the body has no await.  When the store holds
\* the session no more, the object changed is not in the store
update_system_message ==
    \E k \in DOMAIN coroutines :
        LET c == coroutines[k] IN
        /\ StoreWaiting(k, "update_system_message")
        /\ IF c.session_id \in DOMAIN sessions
           THEN StoreReturn(k, [sessions EXCEPT ![c.session_id] =
                                  SM_update_system_message(@, c.args.system_message)],
                            sessions[c.session_id].instance, FALSE, {})
           ELSE StoreReturn(k, sessions, 0, FALSE, {})

NextStore ==
    \/ StoreCall
    \/ update_system_message
    \/ RunGetOrCreate
    \/ RunGetSession
    \/ RunDeleteSession
    \/ RunClearAll

SpecStore == InitChat /\ [][NextStore]_vars

(***************************************************************************)
(* The chat endpoint (api/routers/chatbot.py): the requests of one user to *)
(* one process, whose SessionStore keeps the user's session from one       *)
(* request to the next.  Each request is a coroutine with a database       *)
(* session of its own; POST /chat is suspended while it awaits Runner.run, *)
(* and other requests are handled meanwhile.  The UserData object a        *)
(* request's session loaded is read anew only by the refresh after that    *)
(* session's own commit, and save writes its whole ai_chats list back.     *)
(***************************************************************************)
\* ChatItem.create without its timestamp
ChatItem(role, content) == [role |-> role, content |-> content]

\* UserData.add_chat_message: the persisted messages afterwards
UD_add_chat_message(chats, role, content) ==
    LET added == Append(chats, ChatItem(role, content))
    IN  IF Len(added) > 10 THEN SubSeq(added, Len(added) - 9, Len(added)) ELSE added

\* db_history[-10:]
LastTen(db_history) ==
    IF Len(db_history) > 10
    THEN SubSeq(db_history, Len(db_history) - 9, Len(db_history)) ELSE db_history

\* the loop of the endpoint that adds the persisted messages to the
\* user's session: the store afterwards
RECURSIVE LoadHistory(_, _, _, _)
LoadHistory(store, global, user_id, msgs) ==
    IF msgs = <<>> THEN store
    ELSE LET msg == Head(msgs)
             added == IF msg.role = "user"
                      THEN add_user_message(store, global, user_id, msg.content)
                      ELSE IF msg.role = "assistant"
                      THEN add_assistant_message(store, global, user_id, msg.content)
                      ELSE store
         IN  LoadHistory(added, global, user_id, Tail(msgs))

MsgNoKeyConfigured ==
    "No API key configured. Please add your Gemini or OpenAI API key in Settings to use AI chat."

\* the HTTPException the endpoint raises for a ValueError of the agent
HttpErrorFor(error_msg) ==
    IF Contains(Lower(error_msg), "quota") \/ Contains(Lower(error_msg), "rate limit")
          \/ Contains(error_msg, "429")
    THEN [status_code |-> 429, detail |-> MsgThrottled]
    ELSE IF Contains(Lower(error_msg), "api key") \/ Contains(Lower(error_msg), "invalid")
    THEN [status_code |-> 403, detail |-> error_msg]
    ELSE [status_code |-> 400, detail |-> error_msg]

\* the Gemini key stored for the user, decrypted
StoredGeminiKeys == {"", " AIzaUserGem ", "bogus"}

\* what Runner.run ends with in a request
EndpointOutcomes ==
    {FinalOutput,
     Exception("Error code: 403 - Permission denied: consumer suspended"),
     Exception("Error code: 401 - Unauthorized"),
     Exception("Error code: 400 - API key not valid"),
     Exception("Error code: 429 - Rate limit reached"),
     Exception("Connection error.")}

\* the requests made so far: the POST /chat requests, each with a coroutine,
\* and the answered requests of the other routes
ChatStarted ==
    Len(coroutines)
        + Cardinality({i \in 1..Len(history) : history[i].op # "chat"})

\* the request ended: what the caller received, the session and the
\* persisted messages it left
Responded(user_id, message, key, outcome, raised, response, store, chats, turns) ==
    /\ sessions' = store
    /\ ai_chats' = [ai_chats EXCEPT ![user_id] = chats]
    /\ history' = Append(history,
                          [op |-> "chat", user_id |-> user_id, message |-> message,
                           key |-> key, outcome |-> outcome, raised |-> raised,
                           response |-> response, turns |-> turns,
                           memory |-> IF user_id \in DOMAIN store
                                      THEN store[user_id].messages ELSE <<>>,
                           db |-> chats])

\* POST /chat of TheUser from the request to the await of Runner.run: the
\* keys are read (the session of the request loads the row), the persisted
\* messages are added to the user's session, the user message is saved, and
\* run_agent_with_session runs to its await; without a stored key the
\* request is answered 403 at once
chat ==
    /\ ChatStarted < MaxChatRequests
    /\ \E stored \in StoredGeminiKeys :
        LET user_id == TheUser
            message == TurnMessage(Len(coroutines) + 1)
            gemini_key == IF StartsWith(Strip(stored), "AIza") THEN Strip(stored) ELSE ""
            db_history == ai_chats[user_id]
            global == get_session_store(session_store, 10)
            s1 == create_user_session(sessions, session_store, user_id, 10)
            s2 == LoadHistory(s1, global, user_id, LastTen(db_history))
            c1 == UD_add_chat_message(db_history, "user", message)
            config == ResolveConfig(IF gemini_key = "" THEN None ELSE gemini_key,
                                    None, environ)
            s3 == add_user_message(create_user_session(s2, global, user_id, 10),
                                   global, user_id, message)
            call == [op |-> "chat", user_id |-> user_id, message |-> message,
                     key |-> stored, config |-> config]
        IN  IF gemini_key = ""
            THEN /\ Responded(user_id, message, stored, [kind |-> "none"], None,
                              [status_code |-> 403, detail |-> MsgNoKeyConfigured],
                              sessions, db_history, <<>>)
                 /\ coroutines' = Append(coroutines,
                                         call @@ [pc |-> "done", row |-> db_history])
                 /\ UNCHANGED <<llm_calls, session_store>>
            ELSE IF config = NoConfig
            THEN /\ Responded(user_id, message, stored, [kind |-> "none"], None,
                              [status_code |-> 200, content |-> NoKeyJson],
                              s2, UD_add_chat_message(c1, "assistant", NoKeyJson), <<>>)
                 /\ coroutines' = Append(coroutines,
                        call @@ [pc |-> "done",
                                 row |-> UD_add_chat_message(c1, "assistant", NoKeyJson)])
                 /\ session_store' = global
                 /\ UNCHANGED llm_calls
            ELSE /\ llm_calls' = Append(llm_calls,
                         [user_id      |-> user_id,
                          message      |-> message,
                          input        |-> RunnerInput(message,
                                              get_user_conversation(s3, global, user_id)),
                          run_config   |-> config,
                          conversation |-> get_user_conversation(s3, global, user_id)])
                 /\ sessions' = s3
                 /\ session_store' = global
                 /\ ai_chats' = [ai_chats EXCEPT ![user_id] = c1]
                 /\ coroutines' = Append(coroutines,
                                         call @@ [pc |-> "awaiting", row |-> c1])
                 /\ UNCHANGED history
    /\ UNCHANGED <<requested, appended, msgSeq, memRet, tasks, now, task_ops,
                   contexts, req_pc, chatRet, environ, locks>>

\* POST /chat resumed when Runner.run ends: with result.final_output the
\* response is added to the session, saved with the messages the session of
\* the request holds, and answered; an exception is answered with the
\* HTTPException of its user message
chat_resume ==
    /\ coroutines # <<>>
    /\ \E k \in DOMAIN coroutines, outcome \in EndpointOutcomes :
        LET c == coroutines[k]
            response_content == "re: " \o c.message
            said == SessionMessage("user", c.message)
            saved == UD_add_chat_message(c.row, "assistant", response_content)
        IN  /\ c.op = "chat" /\ c.pc = "awaiting"
            /\ IF outcome = FinalOutput
               THEN /\ Responded(c.user_id, c.message, c.key, outcome, None,
                             [status_code |-> 200, content |-> response_content],
                             add_assistant_message(sessions, session_store, c.user_id,
                                                   response_content),
                             saved,
                             <<said, SessionMessage("assistant", response_content)>>)
                    /\ coroutines' = [coroutines EXCEPT ![k].pc = "done",
                                                        ![k].row = saved]
               ELSE /\ Responded(c.user_id, c.message, c.key, outcome,
                             UserMessageFor(outcome.text),
                             HttpErrorFor(UserMessageFor(outcome.text)),
                             sessions, ai_chats[c.user_id], <<said>>)
                    /\ coroutines' = [coroutines EXCEPT ![k].pc = "done"]
    /\ UNCHANGED <<requested, appended, msgSeq, memRet, tasks, now, task_ops,
                   contexts, req_pc, llm_calls, chatRet, environ, session_store, locks>>

\* GET /chat/history of TheUser: the first min(limit, 10) stored messages
get_chat_history ==
    /\ ChatStarted < MaxChatRequests
    /\ \E limit \in {1, 20} :
          LET messages == ai_chats[TheUser]
              limited_messages == SubSeq(messages, 1, Min(Len(messages), Min(limit, 10)))
          IN  history' = Append(history,
                                 [op |-> "get_chat_history", user_id |-> TheUser,
                                  limit |-> limit, turns |-> <<>>,
                                  response |-> [messages |-> limited_messages,
                                                total |-> Len(limited_messages)]])
    /\ UNCHANGED <<memVars, tasks, now, task_ops, contexts, req_pc, chatVars, lockVars>>

\* DELETE /chat/history of TheUser: the stored messages are cleared, the
\* SessionManager of the user keeps its messages
clear_chat_history ==
    /\ ChatStarted < MaxChatRequests
    /\ LET count == Len(ai_chats[TheUser])
       IN  /\ ai_chats' = [ai_chats EXCEPT ![TheUser] = <<>>]
           /\ history' = Append(history,
                                 [op |-> "clear_chat_history", user_id |-> TheUser,
                                  turns |-> <<>>,
                                  response |-> [deleted |-> count,
                                                message |-> "Cleared " \o ToString(count)
                                                    \o " messages from chat history"]])
    /\ UNCHANGED <<memVars, tasks, now, task_ops, contexts, req_pc, llm_calls,
                   chatRet, environ, session_store, lockVars>>

NextEndpoint ==
    \/ chat
    \/ chat_resume
    \/ get_chat_history
    \/ clear_chat_history

SpecEndpoint == InitChat /\ [][NextEndpoint]_vars

(***************************************************************************)
(* C1                                                                      *)
(***************************************************************************)
\* the last n elements of a sequence
LastN(s, n) == SubSeq(s, Len(s) - Min(n, Len(s)) + 1, Len(s))

\* C1: a SessionManager built with requested capacity c holds, with
\* N = max(2, c), at most N messages, and they are exactly the last min(k, N)
\* of the k messages appended since the most recent clear, in order;
\* get_message_count returns that number.
C1_FifoBound ==
    \A sid \in DOMAIN sessions :
        LET N == Max(2, requested[sid])
            k == Len(appended[sid])
        IN  /\ SM_get_message_count(sessions[sid]) <= N
            /\ SM_get_message_count(sessions[sid]) = Min(k, N)
            /\ sessions[sid].messages = LastN(appended[sid], Min(k, N))
            /\ (memRet.op = "get_message_count" => memRet.value = Min(k, N))

\* 15 messages were appended to a capacity-10 memory, leaving the last 10
C1_Witness ==
    /\ requested[TheSession] = 10
    /\ Len(appended[TheSession]) = 15
    /\ Len(sessions[TheSession].messages) = 10
    /\ sessions[TheSession].messages[1].content = ContentOf(6)

(***************************************************************************)
(* C2 .. C10                                                               *)
(***************************************************************************)
\* the calls of the history made with this operation
CallsOf(op) == {k \in 1..Len(history) : history[k].op = op}

\* the least element of a set of indices, 0 when it is empty
FirstOf(S) == IF S = {} THEN 0 ELSE CHOOSE i \in S : \A j \in S : i <= j

\* the indices of the tasks with this id
WithId(ts, task_id) == {i \in 1..Len(ts) : ts[i].id = task_id}

\* the calls of the six dispatcher operations
DispatcherCalls ==
    {k \in 1..Len(history) :
        history[k].op \in {"create_task", "list_tasks", "complete_task",
                           "update_task", "delete_task", "get_stats"}}

\* C2: every dispatcher operation, for every argument and every store state,
\* returns an envelope carrying a boolean success and a message and never
\* raises; complete_task on an id that matches no task returns success = false
\* with an error tag.
C2_EnvelopeNeverRaises ==
    \A k \in DispatcherCalls :
        LET call == history[k]
            res == call.res
        IN  /\ ~IsRaised(res)
            /\ {"success", "message"} \subseteq DOMAIN res
            /\ res.success \in BOOLEAN
            /\ ( (/\ call.op = "complete_task"
                  /\ WithId(call.before, call.args.task_id) = {})
                 => (~res.success /\ "error" \in DOMAIN res) )

\* C3: every Runner.run call is given the session's messages as they stand
\* after the new user message was appended (at most 10, the last one being the
\* new user message); a str input counts as the one user message it carries.
InputMessages(input) ==
    IF input.kind = "str" THEN <<SessionMessage("user", input.value)>>
    ELSE input.value

C3_HistorySupplied ==
    \A k \in 1..Len(llm_calls) :
        LET call == llm_calls[k] IN
        /\ Len(call.conversation) <= 10
        /\ call.conversation[Len(call.conversation)]
              = SessionMessage("user", call.message)
        /\ InputMessages(call.input) = call.conversation

\* C4: no two tasks of one user's list have the same id.
C4_UniqueIds ==
    \A u \in Users : \A i, j \in 1..Len(tasks[u]) :
        i # j => tasks[u][i].id # tasks[u][j].id

\* the three tiers of find_by_description applied to an already prepared text
Tiered(ts, text) ==
    LET d(i) == Lower(ts[i].description)
        E == {i \in 1..Len(ts) : d(i) = text}
        S == {i \in 1..Len(ts) : Contains(d(i), text) \/ Contains(text, d(i))}
        P == {i \in 1..Len(ts) : StartsWith(d(i), text) \/ StartsWith(text, d(i))}
    IN  IF E # {} THEN FirstOf(E)
        ELSE IF S # {} THEN FirstOf(S)
        ELSE FirstOf(P)

\* C5 (as stated): find_by_description(text) returns the first task in list
\* order whose description equals text case-insensitively, else the first with
\* containment in either direction, else the first with a prefix in either
\* direction, else none; text is taken as given.
C5_FindTiersLiteral ==
    \A k \in CallsOf("find_task_by_description") :
        history[k].res.index
            = Tiered(history[k].before, Lower(history[k].args.description))

\* C5 (amended): the same three tiers, applied to text lower-cased and stripped
\* of its surrounding whitespace; an exact match anywhere wins over an earlier
\* substring match.
C5_FindTiersTrimmed ==
    \A k \in CallsOf("find_task_by_description") :
        history[k].res.index
            = Tiered(history[k].before, Strip(Lower(history[k].args.description)))

\* C5's example: with ['Buy milk', 'Buy milk and eggs'] 'milk' finds 'Buy milk'
C5_Witness ==
    /\ history # <<>>
    /\ LastCall.op = "find_task_by_description"
    /\ Len(LastCall.before) = 2
    /\ LastCall.before[1].description = "Buy milk"
    /\ LastCall.before[2].description = "Buy milk and eggs"
    /\ LastCall.args.description = "milk"
    /\ LastCall.res.index = 1

\* the task update_task and delete_task are to act on: the first with the id,
\* else the one find_by_description returns (0: none)
Resolved(ts, arg) ==
    IF WithId(ts, arg) # {} THEN FirstOf(WithId(ts, arg))
    ELSE find_task_by_description(ts, arg)

\* what C6 says of one update_task or delete_task call
ResolvesIdFirst(call) ==
    LET B == call.before
        A == call.after
        res == call.res
        target == Resolved(B, call.args.target)
    IN  IF target = 0
        THEN /\ A = B
             /\ ~res.success
             /\ Contains(Lower(res.message), "not found")
        ELSE IF call.op = "delete_task"
        THEN /\ res.success
             /\ A = RemoveAt(B, target)
             /\ res.message = "Task '" \o B[target].description
                                  \o "' deleted successfully!"
        ELSE /\ Len(A) = Len(B)
             /\ \A i \in 1..Len(B) : i # target => A[i] = B[i]
             /\ res.success => A[target] # B[target]

\* C6: update_task and delete_task resolve the argument as an id first and by
\* description only when no task has that id; when neither resolves no task
\* changes and not-found is signalled; a successful delete removes exactly the
\* resolved task and echoes its description.
C6_ResolveIdFirst ==
    \A k \in CallsOf("update_task") \cup CallsOf("delete_task") :
        ResolvesIdFirst(history[k])

\* C6 on the calls made when no two tasks shared an id
C6_ResolveIdFirstUniqueIds ==
    \A k \in CallsOf("update_task") \cup CallsOf("delete_task") :
        (\A i, j \in 1..Len(history[k].before) :
            i # j => history[k].before[i].id # history[k].before[j].id)
        => ResolvesIdFirst(history[k])

\* an update_task call whose target resolves to no task
Unresolved(call) == Resolved(call.before, call.args.target) = 0

\* an update_task call with a resolved target and no field to change
NoFields(call) ==
    /\ Resolved(call.before, call.args.target) # 0
    /\ call.args.description = None
    /\ call.args.priority = None
    /\ call.args.due_date = None

\* C7: update_task answers an unresolved target and a call without fields with
\* different error tags, and modifies no task in either case.
C7_DistinctErrorTags ==
    \A k1, k2 \in CallsOf("update_task") :
        LET c1 == history[k1]
            c2 == history[k2]
        IN  (Unresolved(c1) /\ NoFields(c2)) =>
                /\ ~c1.res.success /\ ~c2.res.success
                /\ c1.after = c1.before /\ c2.after = c2.before
                /\ "error" \in DOMAIN c1.res /\ "error" \in DOMAIN c2.res
                /\ c1.res.error # c2.res.error

\* complete_task(id) was called on a list holding a task with that id
CompletesExisting(k) ==
    /\ history[k].op = "complete_task"
    /\ WithId(history[k].before, history[k].args.task_id) # {}

\* C8: complete_task(id) on an existing task negates is_completed, names the
\* new state in the message and changes nothing else but updated_at; two
\* successive calls give the task back its original is_completed value with
\* every other field except updated_at unchanged.
C8_Toggle ==
    \A k \in 1..Len(history) : CompletesExisting(k) =>
        LET call == history[k]
            B == call.before
            A == call.after
            i == FirstOf(WithId(B, call.args.task_id))
        IN  /\ ~IsRaised(call.res)
            /\ call.res.success
            /\ Len(A) = Len(B)
            /\ A[i].is_completed = ~B[i].is_completed
            /\ call.res.message =
                   "Task marked as "
                       \o (IF A[i].is_completed THEN "completed" ELSE "uncompleted")
                       \o "!"
            /\ [A[i] EXCEPT !.is_completed = B[i].is_completed,
                            !.updated_at = B[i].updated_at] = B[i]
            /\ \A j \in 1..Len(B) : j # i => A[j] = B[j]
            /\ ( (/\ k > 1
                  /\ CompletesExisting(k - 1)
                  /\ history[k - 1].args.task_id = call.args.task_id)
                 => LET B0 == history[k - 1].before
                        i0 == FirstOf(WithId(B0, call.args.task_id))
                    IN  /\ A[i].is_completed = B0[i0].is_completed
                        /\ [A[i] EXCEPT !.updated_at = B0[i0].updated_at] = B0[i0] )

\* two successive complete_task calls on one existing task: completed, then
\* uncompleted again
C8_Witness ==
    /\ Len(history) >= 2
    /\ CompletesExisting(Len(history))
    /\ CompletesExisting(Len(history) - 1)
    /\ history[Len(history) - 1].args.task_id = LastCall.args.task_id
    /\ history[Len(history) - 1].res.message = "Task marked as completed!"
    /\ LastCall.res.message = "Task marked as uncompleted!"

\* the recurrence keyword set of the claim
RecurrenceSet ==
    {"every day", "everyday", "daily", "each day", "recurring",
     "every morning", "every night", "every evening"}

\* a create call that stored a task though is_daily was not set
StoredUnset(k) ==
    /\ history[k].op = "create_task"
    /\ history[k].res.success
    /\ ~history[k].args.is_daily

\* the task a successful create call stored
StoredBy(k) == history[k].after[Len(history[k].after)]

\* C9 (as stated): create with is_daily unset stores is_daily = true whenever
\* a keyword of the recurrence set occurs, in any case, in the due-date phrase,
\* in the tags or in the description.
C9_AllFieldsScanned ==
    \A k \in 1..Len(history) : StoredUnset(k) =>
        LET args == history[k].args IN
        ( \/ Truthy(args.due_date) /\ AnyIn(RecurrenceSet, Lower(args.due_date))
          \/ Truthy(args.tags) /\ AnyIn(RecurrenceSet, Lower(args.tags))
          \/ AnyIn(RecurrenceSet, Lower(args.description)) )
        => StoredBy(k).is_daily

\* C9 (amended): create with is_daily unset stores is_daily = true whenever a
\* keyword of the recurrence set occurs, in any case, in the due-date phrase or
\* in the description, or the tags contain "daily" or "recurring".
C9_DailyRedetected ==
    \A k \in 1..Len(history) : StoredUnset(k) =>
        LET args == history[k].args IN
        ( \/ Truthy(args.due_date) /\ AnyIn(RecurrenceSet, Lower(args.due_date))
          \/ Truthy(args.tags) /\ AnyIn({"daily", "recurring"}, Lower(args.tags))
          \/ AnyIn(RecurrenceSet, Lower(args.description)) )
        => StoredBy(k).is_daily

\* C9's example: 'Stretch every day' with is_daily unset and no due phrase is
\* stored as a daily task
C9_Witness ==
    /\ history # <<>>
    /\ StoredUnset(Len(history))
    /\ LastCall.args.description = "Stretch every day"
    /\ LastCall.args.due_date = None
    /\ LastCall.args.tags = ""
    /\ StoredBy(Len(history)).is_daily

\* C10: when create's re-detection forces is_daily = true the stored task has
\* no due date, whichever field held the keyword.
C10_ForcedDailyClearsDue ==
    \A k \in 1..Len(history) :
        (StoredUnset(k) /\ StoredBy(k).is_daily)
            => StoredBy(k).due_date = None
\* the four credential candidates of a turn, in the order of the claim
Candidates(args, env) ==
    <<[provider |-> "gemini", key |-> args.gemini_api_key, prefix |-> "AIza"],
      [provider |-> "openai", key |-> args.openai_api_key, prefix |-> "sk-"],
      [provider |-> "gemini", key |-> env.GEMINI_API_KEY, prefix |-> "AIza"],
      [provider |-> "openai", key |-> env.OPENAI_API_KEY, prefix |-> "sk-"]>>

\* the candidate is present and passes its provider's prefix check
WellFormed(c) == Truthy(c.key) /\ StartsWith(Strip(c.key), c.prefix)

\* C11: a turn calls the language model with the first of the candidates user
\* Gemini key, user OpenAI key, environment Gemini key, environment OpenAI key
\* that is present and has its provider's prefix (AIza, sk-); when none is,
\* the turn returns the no-credentials failure, calls no model and appends
\* nothing to the memory.
C11_CredentialOrder ==
    [][Len(coroutines') > Len(coroutines) =>
       LET call == coroutines'[Len(coroutines')]
           cands == Candidates(call.args, environ)
           good == {i \in 1..4 : WellFormed(cands[i])}
       IN  IF good = {}
           THEN /\ call.ret = [kind |-> "returned", value |-> NoKeyJson]
                /\ llm_calls' = llm_calls
                /\ sessions' = sessions
           ELSE LET c == cands[CHOOSE i \in good : \A j \in good : i <= j]
                IN  /\ Len(llm_calls') = Len(llm_calls) + 1
                    /\ llm_calls'[Len(llm_calls')].run_config.provider = c.provider
                    /\ llm_calls'[Len(llm_calls')].run_config.api_key = Strip(c.key)
      ]_vars

\* the message of the first rule of the table one of whose substrings occurs
\* in the lower-cased text, the generic failure when no rule has one
FirstRuleMessage(rules, text) ==
    LET hits == {i \in 1..Len(rules) : AnyIn(rules[i].subs, Lower(text))}
    IN  IF hits = {} THEN MsgGeneric
        ELSE rules[CHOOSE i \in hits : \A j \in hits : i <= j].msg

\* the rules as the claim lists them
ClaimedRules ==
    <<[subs |-> {"403", "suspended", "permission denied"}, msg |-> MsgSuspended],
      [subs |-> {"401", "unauthorized"}, msg |-> MsgInvalidKey],
      [subs |-> {"429", "rate limit", "quota"}, msg |-> MsgThrottled],
      [subs |-> {"timeout"}, msg |-> MsgTimeout],
      [subs |-> {"network", "connection"}, msg |-> MsgConnectivity]>>

\* the rules with 'invalid' added to the second, 'timed out' to the timeout
\* rule, and a rule for 'api key' / 'api_key' before the timeout rule
AmendedRules ==
    <<[subs |-> {"403", "suspended", "permission denied"}, msg |-> MsgSuspended],
      [subs |-> {"401", "unauthorized", "invalid"}, msg |-> MsgInvalidKey],
      [subs |-> {"429", "rate limit", "quota"}, msg |-> MsgThrottled],
      [subs |-> {"api key", "api_key"}, msg |-> MsgKeyConfig],
      [subs |-> {"timeout", "timed out"}, msg |-> MsgTimeout],
      [subs |-> {"network", "connection"}, msg |-> MsgConnectivity]>>

\* C12 as claimed: when the language-model call raises, the message raised to
\* the caller is that of the first of the rules 403/suspended/permission
\* denied, 401/unauthorized, 429/rate limit/quota, timeout, network/connection
\* that matches the lower-cased error text, else the generic failure; no other
\* substring changes the class.
C12_ClaimedRules ==
    chatRet.kind = "raised"
        => chatRet.value = FirstRuleMessage(ClaimedRules, chatRet.outcome.text)

\* C12 amended: the same with the rules the code has: 'invalid' also selects
\* the invalid-credential message, 'api key' / 'api_key' select a key
\* configuration message before the timeout rule, 'timed out' also selects
\* the timeout message.
C12_AmendedRules ==
    chatRet.kind = "raised"
        => chatRet.value = FirstRuleMessage(AmendedRules, chatRet.outcome.text)

\* a call raised a text with 'timeout' and 'invalid' but none of the
\* substrings of the claim's first three rules
C12_Witness ==
    /\ chatRet.kind = "raised"
    /\ Contains(Lower(chatRet.outcome.text), "timeout")
    /\ Contains(Lower(chatRet.outcome.text), "invalid")
    /\ chatRet.value = MsgInvalidKey

\* the calls of history made while no TaskOperations was set
UnboundCalls == {k \in 1..Len(history) : history[k].bound = None}

\* C13: a tool invoked while no TaskOperations is set touches no task list
\* and returns success=false with the error tag 'context_unavailable'.
C13_UnboundTagged ==
    \A k \in UnboundCalls :
        LET call == history[k] IN
        /\ ~IsRaised(call.res)
        /\ call.res.success = FALSE
        /\ "error" \in DOMAIN call.res
        /\ call.res.error = "context_unavailable"
        /\ call.after = call.before

\* the orders in which the coroutines' calls can be made one after the other
CallOrders ==
    {o \in [1..MaxCoroutines -> 1..MaxCoroutines] :
        \A a, b \in 1..MaxCoroutines : a # b => o[a] # o[b]}

\* the sessions and the return values after the calls from the j-th of
\* the order on were made one at a time
RECURSIVE SequentialRun(_, _, _, _)
SequentialRun(order, j, sess, rets) ==
    IF j > MaxCoroutines THEN [sessions |-> sess, rets |-> rets]
    ELSE
    LET k == order[j]
        c == coroutines[k]
        sm == sess[c.sid]
    IN  IF c.op = "add_message"
        THEN SequentialRun(order, j + 1,
                 [sess EXCEPT ![c.sid] = SM_add_message(sm, "user", AddedBy(k))],
                 [rets EXCEPT ![k] = RetNone])
        ELSE IF c.op = "clear"
        THEN SequentialRun(order, j + 1, [sess EXCEPT ![c.sid] = SM_clear(sm)],
                           [rets EXCEPT ![k] = RetNone])
        ELSE IF c.op = "get_messages"
        THEN SequentialRun(order, j + 1, sess,
                           [rets EXCEPT ![k] = RetList(SM_get_messages(sm))])
        ELSE IF c.op = "get_last_n_messages"
        THEN SequentialRun(order, j + 1, sess,
                 [rets EXCEPT ![k] = RetList(SM_get_last_n_messages(sm, LastNArg))])
        ELSE SequentialRun(order, j + 1, sess,
                 [rets EXCEPT ![k] = RetInt(SM_get_message_count(sm))])

AllDone == \A k \in DOMAIN coroutines : coroutines[k].pc = "done"

\* C14: once concurrently awaited add_message, get_messages,
\* get_last_n_messages, clear and get_message_count calls have all returned,
\* the sessions' contents and every return value are those of the calls made
\* one at a time in some order; and a call that waits for a lock waits for the
\* lock of its own session, held by a call on that same session.
C14_Linearizable ==
    /\ (coroutines # <<>> /\ AllDone) =>
          \E order \in CallOrders :
              LET run == SequentialRun(order, 1, InitialSessions,
                                       [k \in 1..MaxCoroutines |-> NotReturned])
              IN  /\ \A u \in Users : sessions[u] = run.sessions[u]
                  /\ \A k \in 1..MaxCoroutines : coroutines[k].ret = run.rets[k]
    /\ \A k \in DOMAIN coroutines :
          (coroutines[k].pc = "acquire" /\ ~LockFree(locks, coroutines[k].sid))
              => coroutines[locks[coroutines[k].sid]].sid = coroutines[k].sid

\* an add_message and a get_messages on u1's session and a call on u2's
\* session have all returned, the get_messages having seen the added message
C14_Witness ==
    /\ coroutines # <<>>
    /\ AllDone
    /\ \E a, g \in DOMAIN coroutines :
          /\ coroutines[a].sid = "u1" /\ coroutines[a].op = "add_message"
          /\ coroutines[g].sid = "u1" /\ coroutines[g].op = "get_messages"
          /\ coroutines[g].ret = RetList(<<SessionMessage("assistant", "old2"),
                                           SessionMessage("user", AddedBy(a))>>)
    /\ \E b \in DOMAIN coroutines :
          coroutines[b].sid = "u2" /\ coroutines[b].op = "clear"

\* every user's task list after the k-th call: the lists change in tool
\* calls only, so they are the lists the next call found
ListsAfter(k) == IF k < Len(history) THEN history[k + 1].others ELSE tasks

\* the descriptions the tasks of a user's requests can have
DescriptionsOf(u) ==
    {"Task of " \o u, "Renamed Task of " \o u}

\* the tasks a dict returned by a tool carries
TasksIn(res) ==
    IF IsRaised(res) THEN {}
    ELSE (IF "tasks" \in DOMAIN res
          THEN {res.tasks[i] : i \in 1..Len(res.tasks)} ELSE {})
         \cup (IF "task" \in DOMAIN res THEN {res.task} ELSE {})

\* C15: with the requests of two users interleaved, every tool call of a
\* request acts through the TaskOperations set for that request, on the list
\* of the request's user only: the other user's list is the same after the
\* call, the tasks returned are tasks of the request's user, and no list ever
\* holds a task of the other user.
C15_UserIsolation ==
    /\ \A k \in 1..Len(history) :
          LET call == history[k]
              u == ReqUser[call.request] IN
          /\ call.bound = call.set_for
          /\ call.bound \in {None, u}
          /\ call.bound # None => call.before = call.others[u]
          /\ \A v \in Users \ {u} : ListsAfter(k)[v] = call.others[v]
          /\ call.bound # None => ListsAfter(k)[u] = call.after
          /\ \A t \in TasksIn(call.res) : t.description \in DescriptionsOf(u)
    /\ \A u \in Users : \A i \in 1..Len(tasks[u]) :
          tasks[u][i].description \in DescriptionsOf(u)

\* u1's request created a task, then u2's request created one with the same
\* id and deleted it by that id, and u1's task is still stored
C15_Witness ==
    /\ Len(history) = 3
    /\ history[1].request = "r1" /\ history[1].op = "create_task"
    /\ history[2].request = "r2" /\ history[2].op = "create_task"
    /\ history[3].request = "r2" /\ history[3].op = "delete_task"
    /\ history[3].args.target = "a1b2c3d4"
    /\ history[3].res.success
    /\ Len(tasks["u1"]) = 1
    /\ tasks["u2"] = <<>>

\* the create and update calls made so far
FieldCalls ==
    {k \in 1..Len(history) : history[k].op \in {"create_task", "update_task"}}

\* the call carries a description that is empty after trimming or too long
BadDescription(call) ==
    /\ call.args.description # None
    /\ \/ Strip(call.args.description) = ""
       \/ Len(Strip(call.args.description)) > MaxDescriptionLen

\* C16: every stored description is trimmed, not empty and at most 500
\* characters long, and a create or update whose description is empty after
\* trimming or longer than 500 characters returns an error envelope and
\* leaves the list as it was.
C16_DescriptionBounds ==
    /\ \A i \in 1..Len(CurTasks) :
          /\ CurTasks[i].description = Strip(CurTasks[i].description)
          /\ Len(CurTasks[i].description) \in 1..MaxDescriptionLen
    /\ \A k \in FieldCalls :
          BadDescription(history[k])
              => /\ ~IsRaised(history[k].res)
                 /\ history[k].res.success = FALSE
                 /\ history[k].after = history[k].before

\* the text is a zero-padded calendar date YYYY-MM-DD
IsIsoDate(s) ==
    /\ Len(s) = 10
    /\ CharAt(s, 8) = "-"
    /\ IsDigits(SubSeq(s, 6, 7)) /\ IsDigits(SubSeq(s, 9, 10))
    /\ StrptimeOk(s)

\* the text is an ISO 8601 date or date-time
IsIso8601(s) ==
    \/ IsIsoDate(s)
    \/ Len(s) > 10 /\ IsIsoDate(SubSeq(s, 1, 10)) /\ CharAt(s, 11) = "T"

\* C17: every stored due_date is absent or an ISO 8601 date or date-time: a
\* phrase or an unparseable string given to create or update is resolved or
\* dropped, never stored as it was given.
C17_DueDateNormalized ==
    \A i \in 1..Len(CurTasks) :
        CurTasks[i].due_date = None \/ IsIso8601(CurTasks[i].due_date)

\* the priority the claim says is stored for the argument
ExpectedPriority(p) ==
    IF Truthy(p) /\ Strip(Lower(p)) \in {"low", "medium", "high"}
    THEN Strip(Lower(p)) ELSE "medium"

\* the successful create and update calls
Succeeded ==
    {k \in FieldCalls : ~IsRaised(history[k].res) /\ history[k].res.success}

\* C18: every stored priority is low, medium or high; a task is created with
\* the lower-cased, trimmed priority when that is one of the three and with
\* medium otherwise; an update that carries a priority stores it the same
\* way and one that carries none leaves it; normalising a stored priority
\* returns it unchanged.
C18_PriorityNormalized ==
    /\ \A i \in 1..Len(CurTasks) :
          /\ CurTasks[i].priority \in {"low", "medium", "high"}
          /\ PriorityValidator_validate(CurTasks[i].priority) = CurTasks[i].priority
          /\ TO_validate_priority(CurTasks[i].priority) = CurTasks[i].priority
    /\ \A k \in Succeeded :
          LET call == history[k] IN
          IF call.op = "create_task"
          THEN call.after[Len(call.after)].priority
                   = ExpectedPriority(call.args.priority)
          ELSE LET i == IndexById(call.before, call.res.task.id) IN
               call.after[i].priority
                   = IF call.args.priority = None THEN call.before[i].priority
                     ELSE ExpectedPriority(call.args.priority)

\* a task created with priority "HIGH " was updated with " Low" and holds low
C18_Witness ==
    /\ Len(history) = 2
    /\ history[1].op = "create_task" /\ history[1].args.priority = "HIGH "
    /\ history[1].after[1].priority = "high"
    /\ history[2].op = "update_task" /\ history[2].args.priority = " Low"
    /\ CurTasks[1].priority = "low"

\* the DateParser.parse calls made so far
ParseCalls == {k \in 1..Len(history) : history[k].op = "DateParser.parse"}

Tomorrow == FormatDate(AddDays(TodayDate, 1))

\* C19: DateParser.parse returns tomorrow's date for every phrase that
\* contains 'tomorrow' in any letter case, whatever else the phrase contains.
C19_TomorrowAlways ==
    \A k \in ParseCalls :
        Contains(Lower(history[k].args.date_str), "tomorrow")
            => history[k].res.value = Tomorrow

\* C19 (amended): DateParser.parse returns tomorrow's date for every phrase
\* that contains 'tomorrow' in any letter case and does not contain 'today',
\* whatever other date or recurrence keywords it contains; a phrase that
\* contains 'today' as well gives today's date.
C19_TomorrowUnlessToday ==
    \A k \in ParseCalls :
        LET date_lower == Lower(history[k].args.date_str)
            value == history[k].res.value
        IN  Contains(date_lower, "tomorrow") =>
                IF Contains(date_lower, "today")
                THEN value = FormatDate(TodayDate)
                ELSE value = Tomorrow

\* 'Tomorrow' between another date keyword and a recurrence keyword was
\* classified on 2025-12-30 and gave 2025-12-31
C19_Witness ==
    /\ ParseCalls # {}
    /\ LastCall.op = "DateParser.parse"
    /\ LastCall.args.date_str = "Next week, not Tomorrow 9am daily"
    /\ LastCall.res.value = "2025-12-31"

\* the words DateParser.parse resolves to a date
LiteralKeywords ==
    {"today", "tomorrow", "tmrw", "tommorow", "next week", "in a week",
     "next month", "in a month", "in 2 days", "in two days", "in 3 days",
     "in three days"}

\* the phrase holds no literal and no recurrence keyword
NoKeyword(phrase) ==
    ~AnyIn(LiteralKeywords \cup ParserDailyKeywords, Lower(phrase))

\* C20: an empty or absent phrase is unresolved; a phrase without a literal
\* or recurrence keyword whose first 10 characters parse as YYYY-MM-DD gives
\* that date when its year is the current or the next one and tomorrow's date
\* otherwise; when the first 10 characters do not parse it is unresolved.
C20_IsoWindow ==
    \A k \in ParseCalls :
        LET phrase == history[k].args.date_str
            value == history[k].res.value
        IN  IF ~Truthy(phrase) THEN value = None
            ELSE NoKeyword(phrase) =>
                 LET head == SubSeq(phrase, 1, Min(10, Len(phrase))) IN
                 IF StrptimeOk(head)
                 THEN IF Strptime(head).y \in {TodayDate.y, TodayDate.y + 1}
                      THEN value = FormatDate(Strptime(head))
                      ELSE value = Tomorrow
                 ELSE value = None

\* '2030-01-01' was classified on 2025-12-30 and gave 2025-12-31
C20_Witness ==
    /\ ParseCalls # {}
    /\ LastCall.op = "DateParser.parse"
    /\ LastCall.args.date_str = "2030-01-01"
    /\ LastCall.res.value = "2025-12-31"

(***************************************************************************)
(* C21 .. C30                                                              *)
(***************************************************************************)
\* the get_tasks and list_tasks calls made so far
ListCalls(op) == {k \in 1..Len(history) : history[k].op = op}

\* the positions of the tasks of ts that satisfy every filter given
Matching(ts, is_completed, priority, search, is_daily) ==
    {i \in 1..Len(ts) :
        /\ is_completed # NoBool => ts[i].is_completed = is_completed[1]
        /\ priority # None => ts[i].priority = priority
        /\ search # None => Contains(Lower(ts[i].description), Lower(search))
        /\ is_daily # NoBool => ts[i].is_daily = is_daily[1]}

\* items is the page (skip, limit) of the tasks of ts at the positions
\* matching, newest first: its k-th task has skip + k - 1 matching tasks
\* ahead of it
IsPage(items, ts, matching, skip, limit) ==
    LET ahead == [i \in matching |->
                    Cardinality({j \in matching : ts[j].created_at > ts[i].created_at})]
        \* the same table with its values computed once
        counted == ahead @@ <<>>
    IN  /\ Len(items) = Max(0, Min(limit, Cardinality(matching) - skip))
        /\ \A k \in 1..Len(items) :
              \E i \in matching : counted[i] = skip + k - 1 /\ items[k] = ts[i]

\* C21: get_tasks returns as total the number of the user's tasks that
\* satisfy every filter given and as items those tasks, newest first, without
\* the first skip and at most limit of them; list_tasks clamps its limit into
\* 1..100 and never returns more than 100 tasks.
C21_ListContract ==
    /\ \A k \in ListCalls("get_tasks") :
          LET call == history[k]
              matching == Matching(call.before, call.args.is_completed,
                                   call.args.priority, call.args.search,
                                   call.args.is_daily)
          IN  /\ call.res.total = Cardinality(matching)
              /\ IsPage(call.res.items, call.before, matching,
                        call.args.page.skip, call.args.page.limit)
    /\ \A k \in ListCalls("list_tasks") :
          LET call == history[k]
              matching == Matching(call.before, call.args.is_completed,
                                   None, None, NoBool)
          IN  /\ call.res.page_size \in 1..100
              /\ call.res.page_size = Min(Max(1, call.args.limit), 100)
              /\ Len(call.res.tasks) <= 100
              /\ call.res.total = Cardinality(matching)
              /\ IsPage(call.res.tasks, call.before, matching, 0, call.res.page_size)

\* get_tasks was called with all four filters and skip 1 on four tasks, two
\* of which match: it returned the older of the two and total 2
C21_Witness ==
    /\ ListCalls("get_tasks") # {}
    /\ LastCall.op = "get_tasks"
    /\ LastCall.before = SmallList
    /\ LastCall.args = [is_completed |-> <<FALSE>>, priority |-> "high",
                        search |-> "MILK", is_daily |-> <<FALSE>>,
                        page |-> [skip |-> 1, limit |-> 2]]
    /\ LastCall.res.total = 2
    /\ LastCall.res.items = <<SmallList[1]>>

\* the point in time a due-date text denotes: the date and time
\* datetime.fromisoformat reads in it, at the UTC offset the text gives and
\* in UTC when it gives none; ok is FALSE for a malformed text
Denoted(text) ==
    LET dt == fromisoformat(text)
    IN  IF dt.ok THEN [ok |-> TRUE, at |-> UtcInstant(dt)] ELSE NotParsed

\* the tasks of ts that are not completed and have a well-formed due date
PendingDated(ts) ==
    {i \in 1..Len(ts) :
        ~ts[i].is_completed /\ Truthy(ts[i].due_date) /\ Denoted(ts[i].due_date).ok}

\* C22: the statistics of any task list satisfy total = completed + pending,
\* high_priority_pending = the incomplete tasks of priority high, overdue =
\* the incomplete tasks due before now and due_this_week = the incomplete
\* tasks due between now and now + 7 days; a task without a due date or with
\* a malformed one is counted in total and pending only and the computation
\* succeeds; the example list of four tasks gives 4, 1, 3, 1, 1, 1.
C22_StatsCounts ==
    \A k \in ListCalls("get_stats") :
        LET ts == history[k].before
            res == history[k].res
            stats == res.stats
            done == {i \in 1..Len(ts) : ts[i].is_completed}
        IN  history[k].args.row =>
            /\ res.success
            /\ stats.total_tasks = Len(ts)
            /\ stats.completed_tasks = Cardinality(done)
            /\ stats.total_tasks = stats.completed_tasks + stats.pending_tasks
            /\ stats.high_priority_pending
                  = Cardinality({i \in 1..Len(ts) :
                                    ~ts[i].is_completed /\ ts[i].priority = "high"})
            /\ stats.overdue_tasks
                  = Cardinality({i \in PendingDated(ts) :
                        DateTimeLess(Denoted(ts[i].due_date).at, UtcNowPlus(0))})
            /\ stats.tasks_due_this_week
                  = Cardinality({i \in PendingDated(ts) :
                        /\ ~DateTimeLess(Denoted(ts[i].due_date).at, UtcNowPlus(0))
                        /\ ~DateTimeLess(UtcNowPlus(7), Denoted(ts[i].due_date).at)})
            /\ ts = StatTasks(ExampleKinds) =>
                  /\ stats.total_tasks = 4 /\ stats.completed_tasks = 1
                  /\ stats.pending_tasks = 3 /\ stats.high_priority_pending = 1
                  /\ stats.overdue_tasks = 1 /\ stats.tasks_due_this_week = 1

\* the chat turns started so far
ChatTurns == {k \in DOMAIN coroutines : coroutines[k].op = "chat"}

\* the messages appended to the memory of the user of turn k
MemoryOf(k) ==
    IF coroutines[k].user_id \in DOMAIN appended
    THEN appended[coroutines[k].user_id] ELSE <<>>

\* the positions in the memory of turn k's user of the user message of turn
\* k, and of the assistant turns appended for turn k
UserTurnsOf(k) ==
    {i \in DOMAIN MemoryOf(k) :
        MemoryOf(k)[i] = SessionMessage("user", coroutines[k].message)}
AssistantTurnsOf(k) ==
    {i \in DOMAIN MemoryOf(k) :
        /\ MemoryOf(k)[i].role = "assistant"
        /\ \E j \in UserTurnsOf(k) : j < i
        /\ MemoryOf(k)[i].content
              \in {TurnResponse(k)} \cup {UserMessageFor(o.text) : o \in RunOutcomes \ {FinalOutput}}}

\* the language-model calls made for turn k
ModelCallsOf(k) ==
    {n \in DOMAIN llm_calls : llm_calls[n].message = coroutines[k].message}

\* the user-facing messages of the classified failures
FailureMessages ==
    {MsgSuspended, MsgInvalidKey, MsgThrottled, MsgKeyConfig, MsgTimeout,
     MsgConnectivity, MsgGeneric}

\* C23: in a chat turn the user message is in the user's memory when the
\* language model is invoked, the assistant turn is appended only after the
\* model returned its final text and its content is the text returned to the
\* caller; when the model call fails no assistant turn is appended, the user
\* turn stays and the caller receives a classified failure.
C23_TurnOrder ==
    \A k \in ChatTurns :
        LET c == coroutines[k] IN
        /\ \A n \in ModelCallsOf(k) :
              /\ UserTurnsOf(k) # {}
              /\ \E i \in DOMAIN llm_calls[n].conversation :
                    llm_calls[n].conversation[i] = SessionMessage("user", c.message)
              /\ \A i \in DOMAIN llm_calls[n].conversation :
                    llm_calls[n].conversation[i] # SessionMessage("assistant", TurnResponse(k))
        /\ AssistantTurnsOf(k) # {} =>
              /\ ModelCallsOf(k) # {}
              /\ c.outcome = FinalOutput
              /\ c.pc = "done" /\ c.ret.kind = "returned"
              /\ \A i \in AssistantTurnsOf(k) : MemoryOf(k)[i].content = c.ret.value
        /\ (c.pc = "done" /\ c.outcome = FinalOutput) =>
              /\ Cardinality(AssistantTurnsOf(k)) = 1
              /\ c.ret = [kind |-> "returned", value |-> TurnResponse(k)]
        /\ (c.pc = "done" /\ c.outcome.kind = "exception") =>
              /\ AssistantTurnsOf(k) = {}
              /\ UserTurnsOf(k) # {}
              /\ c.ret.kind = "raised"
              /\ c.ret.value \in FailureMessages

\* two turns of one user interleaved: the model failed for the first, whose
\* user turn stays without an assistant turn, and answered the second
C23_Witness ==
    /\ Len(coroutines) = 2
    /\ \A k \in {1, 2} : coroutines[k].op = "chat" /\ coroutines[k].pc = "done"
    /\ coroutines[1].user_id = coroutines[2].user_id
    /\ coroutines[1].outcome.kind = "exception"
    /\ coroutines[2].outcome = FinalOutput
    /\ MemoryOf(1) = <<SessionMessage("user", TurnMessage(1)),
                        SessionMessage("user", TurnMessage(2)),
                        SessionMessage("assistant", TurnResponse(2))>>

\* the calls of the concurrent requests that saved the row
RaceCommits == {j \in 1..Len(history) : history[j].wrote}

\* the task the create_task call i stored
CreatedBy(i) == history[i].res.task

\* C24: the task-store mutations of one user's concurrent requests are not
\* serialized: a save writes back the list its request holds, so a task that
\* another request created after this request last read the row is gone
\* after the save, whatever the row held in between.
C24_StaleWriteBack ==
    \A i \in RaceCommits, j \in RaceCommits :
        (/\ i < j
         /\ history[i].op = "create_task"
         /\ history[j].request # history[i].request
         /\ history[j].synced < i)
            => \A n \in DOMAIN history[j].after :
                   history[j].after[n] # CreatedBy(i)

\* request 1 created a task, then request 2, started before that, completed
\* the stored task: the row holds the completed task and not the task
\* request 1 created, and no call deleted a task
C24_Witness ==
    /\ Len(history) = 2
    /\ history[1].op = "create_task" /\ history[1].request = 1 /\ history[1].wrote
    /\ history[2].op = "complete_task" /\ history[2].request = 2 /\ history[2].wrote
    /\ Len(tasks[TheUser]) = 1
    /\ tasks[TheUser][1].id = RaceStored[1].id
    /\ tasks[TheUser][1].is_completed
    /\ \A n \in DOMAIN tasks[TheUser] : tasks[TheUser][n] # CreatedBy(1)

\* the SessionStore calls that returned, in the order they held the lock
StoreEvents == {i \in 1..Len(history) : history[i].op \in {c.op : c \in StoreCalls}}

\* no call between the events i and j removed session_id
KeptBetween(i, j, session_id) ==
    \A n \in StoreEvents : i < n /\ n < j => session_id \notin history[n].removed

\* C25: whatever the interleaving of the calls, all callers asking for one
\* session id with no deletion in between receive the same SessionManager,
\* built with the arguments of the call that created it (a later call
\* builds nothing and leaves the store as it was, whatever its arguments);
\* get_session finds it; and it stays in the store until delete_session or
\* clear_all_sessions removes it.
C25_OneInstance ==
    /\ \A i \in StoreEvents, j \in StoreEvents :
          (/\ i < j
           /\ history[i].session_id = history[j].session_id
           /\ history[i].instance # 0
           /\ history[j].op \in {"get_or_create_session", "get_session"}
           /\ KeptBetween(i, j, history[i].session_id))
              => /\ history[j].instance = history[i].instance
                 /\ history[j].after[history[j].session_id].max_messages
                       = history[i].after[history[i].session_id].max_messages
                 /\ ~history[j].created
                 /\ history[j].after = history[j].before
    /\ \A i \in StoreEvents :
          (history[i].instance # 0
              /\ KeptBetween(i, Len(history) + 1, history[i].session_id))
              => /\ history[i].session_id \in DOMAIN sessions
                 /\ sessions[history[i].session_id].instance = history[i].instance
    /\ \A i \in StoreEvents :
          history[i].created =>
              LET built == history[i].after[history[i].session_id] IN
              /\ built.system_message = history[i].args.system_message
              /\ built.max_messages
                    = IF history[i].args.max_messages = 0 THEN 10
                      ELSE history[i].args.max_messages

\* a session was created with the default capacity 10; a second
\* get_or_create_session with capacity 5 and a system message, and a
\* get_session, returned it
C25_Witness ==
    /\ Len(history) = 3
    /\ history[1].op = "get_or_create_session" /\ history[1].created
    /\ history[1].args.max_messages = 0
    /\ history[2].op = "get_or_create_session"
    /\ history[2].session_id = history[1].session_id
    /\ history[2].args = [system_message |-> "Be brief", max_messages |-> 5]
    /\ history[2].instance = history[1].instance
    /\ history[3].op = "get_session"
    /\ history[3].session_id = history[1].session_id
    /\ history[3].instance = history[1].instance
    /\ sessions[history[1].session_id].max_messages = 10
    /\ sessions[history[1].session_id].system_message = None

\* C26: listing is read-only: list_tasks leaves the stored task list as it
\* was, order included, so a description resolves to the same task after
\* the listing as before it.
C26_ListReadOnly ==
    \A i \in 1..Len(history) :
        history[i].op = "list_tasks" =>
            /\ history[i].after = history[i].before
            /\ \A description \in Targets \cup FindQueries :
                  LET was == find_task_by_description(history[i].before, description)
                      is  == find_task_by_description(history[i].after, description)
                  IN  /\ (was = 0) = (is = 0)
                      /\ was # 0 => history[i].after[is] = history[i].before[was]

\* C27: delete_task and update_task given an identifier that is empty or
\* only whitespace resolve no task: they report failure and leave the task
\* list as it was.
C27_BlankResolvesNothing ==
    \A i \in 1..Len(history) :
        (/\ history[i].op \in {"delete_task", "update_task"}
         /\ Strip(history[i].args.target) = "")
            => /\ ~history[i].res.success
               /\ history[i].after = history[i].before

\* the chat requests handled so far
ChatRequests == {i \in 1..Len(history) : history[i].op = "chat"}

\* the turns of the conversation up to request i, in the order they were
\* made
RECURSIVE ConversationUpTo(_)
ConversationUpTo(i) ==
    IF i = 0 THEN <<>> ELSE ConversationUpTo(i - 1) \o history[i].turns

\* C28: after every chat request the in-memory history of the user holds
\* each turn of the conversation at most once and in conversation order: it
\* is the most recent turns of the conversation, ten at most.
C28_NoDuplicateTurns ==
    \A i \in ChatRequests :
        LET memory == history[i].memory
            conversation == ConversationUpTo(i)
        IN  /\ \A a \in 1..Len(memory), b \in 1..Len(memory) :
                  a # b => memory[a] # memory[b]
            /\ Len(memory) <= 10
            /\ Len(memory) <= Len(conversation)
            /\ memory = [k \in 1..Len(memory) |->
                            conversation[Len(conversation) - Len(memory) + k]]

\* C29: the chat endpoint keeps the failure class the orchestrator chose: a
\* suspended-credential or invalid-credential failure is answered with
\* status 403 and the orchestrator's message, and status 429 with the
\* usage-limit message answers the throttling failures and only them.
C29_FailureClassKept ==
    \A i \in ChatRequests :
        LET r == history[i] IN
        r.raised # None =>
            /\ r.raised \in {MsgSuspended, MsgInvalidKey}
                  => r.response = [status_code |-> 403, detail |-> r.raised]
            /\ r.raised = MsgThrottled
                  => r.response = [status_code |-> 429, detail |-> MsgThrottled]
            /\ r.response.status_code = 429 => r.raised = MsgThrottled

\* C30: create stores is_daily = true only if the caller passed
\* is_daily = true or a keyword of the documented recurrence set occurs in
\* the due-date phrase, the tags or the description.
C30_DailyOnlyFromKeywords ==
    \A k \in 1..Len(history) :
        (/\ history[k].op = "create_task"
         /\ history[k].res.success
         /\ history[k].res.task.is_daily)
            => LET args == history[k].args IN
               \/ args.is_daily
               \/ Truthy(args.due_date) /\ AnyIn(RecurrenceSet, Lower(args.due_date))
               \/ Truthy(args.tags) /\ AnyIn(RecurrenceSet, Lower(args.tags))
               \/ AnyIn(RecurrenceSet, Lower(args.description))

====
